---- MODULE Spec2Model ----
(***************************************************************************)
(* A model of the HACK CPU emulator: the 16-bit interpreter                *)
(* (hack_cpu.rs), the two-pass assembler (parser.rs, symbol_table.rs,      *)
(* instructions.rs) and the run controller of the GUI frame (hack_gui.rs). *)
(*                                                                         *)
(* Words are Rust's Wrapping<i16>: integers in -32768..32767.  The RAM is  *)
(* an array of MAX_RAM words; it is held sparsely, as the function from    *)
(* the addresses of its non-zero words to their values.  Text is a tuple   *)
(* of one-character strings.  A Rust panic ends the process: it is         *)
(* recorded in the variable fault, and nothing runs after it.              *)
(***************************************************************************)
EXTENDS Integers, Sequences, FiniteSets, TLC

VARIABLES
    a,              \* CPUState.a
    d,              \* CPUState.d
    pc,             \* CPUState.pc (u16)
    ram,            \* CPUState.ram, sparse
    address_table,  \* CPUState.address_table: [table, current_variable]
    breakpoints,    \* CPUState.breakpoints
    instructions,   \* HackGUI.instructions: [0..MAX_INSTRUCTIONS-1 -> Instruction]
    num_labels,     \* HackGUI.num_labels
    running,        \* HackGUI.running
    program_error,  \* HackGUI.program_error
    fault,          \* "none", or the panic that ended the process
    loads,          \* history: the number of files opened
    last            \* history: the last operation, its inputs and the state before it

vars == <<a, d, pc, ram, address_table, breakpoints, instructions, num_labels,
          running, program_error, fault, loads, last>>

-----------------------------------------------------------------------------
(* Sizes.  The instruction array and the batch are scaled down: the source *)
(* has MAX_INSTRUCTIONS = i16::MAX (parser.rs:13) and                      *)
(* INSTRUCTIONS_PER_REFRESH = 100_000 (main.rs:36).  Word width, RAM size  *)
(* and the keyboard address are the source's.                              *)

MAX_INSTRUCTIONS == 8

INSTRUCTIONS_PER_REFRESH == 4

MAX_RAM == 24577

KBD_LOCATION == 24576

FIRST_VARIABLE == 16

I16_MIN == -32768

I16_MAX == 32767

U16_MODULUS == 65536

-----------------------------------------------------------------------------
(* 16-bit arithmetic of std::num::Wrapping<i16>.                           *)

\* The i16 with the same low 16 bits as the integer x.
Wrap16(x) == ((x - I16_MIN) % U16_MODULUS) + I16_MIN

\* `x as u16` of an i16 (or of a wider integer): the low 16 bits, unsigned.
AsU16(x) == x % U16_MODULUS

\* The i16 whose bit pattern is the u16 u.
FromU16(u) == IF u > I16_MAX THEN u - U16_MODULUS ELSE u

RECURSIVE BitAnd(_, _, _)
\* Bitwise AND of the low n bits of the naturals x and y.
BitAnd(x, y, n) ==
    IF n = 0 THEN 0
    ELSE ((x % 2) * (y % 2)) + 2 * BitAnd(x \div 2, y \div 2, n - 1)

RECURSIVE BitOr(_, _, _)
\* Bitwise OR of the low n bits of the naturals x and y.
BitOr(x, y, n) ==
    IF n = 0 THEN 0
    ELSE (IF (x % 2) + (y % 2) > 0 THEN 1 ELSE 0) + 2 * BitOr(x \div 2, y \div 2, n - 1)

RECURSIVE BitNot(_, _)
\* Bitwise complement of the low n bits of the natural x.
BitNot(x, n) ==
    IF n = 0 THEN 0
    ELSE (1 - (x % 2)) + 2 * BitNot(x \div 2, n - 1)

WAnd(x, y) == FromU16(BitAnd(AsU16(x), AsU16(y), 16))

WOr(x, y) == FromU16(BitOr(AsU16(x), AsU16(y), 16))

WNot(x) == FromU16(BitNot(AsU16(x), 16))

WNeg(x) == Wrap16(0 - x)

\* A mutant of WAdd: the sum saturates at the ends of the i16 range.
WAddSaturating(x, y) ==
    IF x + y > I16_MAX THEN I16_MAX ELSE IF x + y < I16_MIN THEN I16_MIN ELSE x + y

WAdd(x, y) == Wrap16(x + y)

WSub(x, y) == Wrap16(x - y)

\* Wrapping<i16> << 1: i16::wrapping_shl(1).
WShl(x) == FromU16((AsU16(x) * 2) % U16_MODULUS)

\* Wrapping<i16> >> 1: i16::wrapping_shr(1), the arithmetic shift of a signed
\* integer: the sign bit is kept.
WShr(x) == x \div 2

-----------------------------------------------------------------------------
(* The instruction set (instructions.rs).  Enum variants are named by      *)
(* strings.                                                                 *)

Destinations == {"None", "A", "M", "D", "MD", "AM", "AD", "AMD"}

Jumps == {"None", "JGT", "JEQ", "JGE", "JLT", "JNE", "JLE", "JMP"}

CompsAD == {"Zero", "One", "MinusOne", "D", "A", "NotD", "NotA", "MinusD", "MinusA",
            "DPlusOne", "APlusOne", "DMinusOne", "AMinusOne", "DPlusA", "DMinusA",
            "AMinusD", "DAndA", "DOrA", "LeftShiftA", "LeftShiftD", "RightShiftA",
            "RightShiftD"}

CompsM == {"M", "NotM", "MinusM", "MPlusOne", "MMinusOne", "DPlusM", "DMinusM",
           "MMinusD", "DAndM", "DOrM", "LeftShiftM", "RightShiftM"}

Comps == CompsAD \cup CompsM

InstrA(n) == [type |-> "A", dest |-> n]

InstrC(dest, comp, jump) == [type |-> "C", dest |-> dest, comp |-> comp, jump |-> jump]

InstrLabel(name) == [type |-> "Label", name |-> name]

InstrNone == [type |-> "None"]

-----------------------------------------------------------------------------
(* The CPU (hack_cpu.rs).  A CPU value is [a, d, pc, ram, fault].           *)

\* ram[i] of the array.
RamGet(r, i) == IF i \in DOMAIN r THEN r[i] ELSE 0

\* The array r with ram[i] = v.
RamPut(r, i, v) ==
    LET dom == IF v = 0 THEN DOMAIN r \ {i} ELSE DOMAIN r \cup {i}
    IN  [x \in dom |-> IF x = i THEN v ELSE r[x]]

\* `self.ram[self.a.0 as usize]` is in bounds: a negative i16 cast to usize is
\* at least 2^64 - 32768, beyond the array.
RamIndexOk(x) == x >= 0 /\ x < MAX_RAM

WritesM(dest) == dest \in {"M", "MD", "AM", "AMD"}

WritesA(dest) == dest \in {"A", "AM", "AD", "AMD"}

WritesD(dest) == dest \in {"D", "MD", "AD", "AMD"}

\* A mutant of Compute: D-1 and A-1 subtract one.
ComputeSubtractsOne(comp, ra, rd, m) ==
    CASE comp = "Zero" -> 0
      [] comp = "One" -> 1
      [] comp = "MinusOne" -> -1
      [] comp = "D" -> rd
      [] comp = "A" -> ra
      [] comp = "NotD" -> WNot(rd)
      [] comp = "NotA" -> WNot(ra)
      [] comp = "MinusD" -> WNeg(rd)
      [] comp = "MinusA" -> WNeg(ra)
      [] comp = "DPlusOne" -> WAdd(rd, 1)
      [] comp = "APlusOne" -> WAdd(ra, 1)
      [] comp = "DMinusOne" -> WSub(rd, 1)
      [] comp = "AMinusOne" -> WSub(ra, 1)
      [] comp = "DPlusA" -> WAdd(rd, ra)
      [] comp = "DMinusA" -> WSub(rd, ra)
      [] comp = "AMinusD" -> WSub(ra, rd)
      [] comp = "DAndA" -> WAnd(rd, ra)
      [] comp = "DOrA" -> WOr(rd, ra)
      [] comp = "M" -> m
      [] comp = "NotM" -> WNot(m)
      [] comp = "MinusM" -> WNeg(m)
      [] comp = "MPlusOne" -> WAdd(m, 1)
      [] comp = "MMinusOne" -> WSub(m, 1)
      [] comp = "DPlusM" -> WAdd(rd, m)
      [] comp = "DMinusM" -> WSub(rd, m)
      [] comp = "MMinusD" -> WSub(m, rd)
      [] comp = "DAndM" -> WAnd(m, rd)
      [] comp = "DOrM" -> WOr(m, rd)
      [] comp = "LeftShiftA" -> WShl(ra)
      [] comp = "LeftShiftD" -> WShl(rd)
      [] comp = "LeftShiftM" -> WShl(m)
      [] comp = "RightShiftA" -> WShr(ra)
      [] comp = "RightShiftD" -> WShr(rd)
      [] comp = "RightShiftM" -> WShr(m)

\* The match on c.comp: the ALU result from A, D and m = RAM[A].
Compute(comp, ra, rd, m) ==
    CASE comp = "Zero" -> 0
      [] comp = "One" -> 1
      [] comp = "MinusOne" -> -1
      [] comp = "D" -> rd
      [] comp = "A" -> ra
      [] comp = "NotD" -> WNot(rd)
      [] comp = "NotA" -> WNot(ra)
      [] comp = "MinusD" -> WNeg(rd)
      [] comp = "MinusA" -> WNeg(ra)
      [] comp = "DPlusOne" -> WAdd(rd, 1)
      [] comp = "APlusOne" -> WAdd(ra, 1)
      [] comp = "DMinusOne" -> WAdd(rd, 1)
      [] comp = "AMinusOne" -> WAdd(ra, 1)
      [] comp = "DPlusA" -> WAdd(rd, ra)
      [] comp = "DMinusA" -> WSub(rd, ra)
      [] comp = "AMinusD" -> WSub(ra, rd)
      [] comp = "DAndA" -> WAnd(rd, ra)
      [] comp = "DOrA" -> WOr(rd, ra)
      [] comp = "M" -> m
      [] comp = "NotM" -> WNot(m)
      [] comp = "MinusM" -> WNeg(m)
      [] comp = "MPlusOne" -> WAdd(m, 1)
      [] comp = "MMinusOne" -> WSub(m, 1)
      [] comp = "DPlusM" -> WAdd(rd, m)
      [] comp = "DMinusM" -> WSub(rd, m)
      [] comp = "MMinusD" -> WSub(m, rd)
      [] comp = "DAndM" -> WAnd(m, rd)
      [] comp = "DOrM" -> WOr(m, rd)
      [] comp = "LeftShiftA" -> WShl(ra)
      [] comp = "LeftShiftD" -> WShl(rd)
      [] comp = "LeftShiftM" -> WShl(m)
      [] comp = "RightShiftA" -> WShr(ra)
      [] comp = "RightShiftD" -> WShr(rd)
      [] comp = "RightShiftM" -> WShr(m)

\* A mutant of StoreDest: for AM and AMD the A register is written first, so the
\* result lands in RAM[new A].
StoreDestAFirst(dest, answer, cpu) ==
    LET na == IF WritesA(dest) THEN answer ELSE cpu.a
    IN  [cpu EXCEPT !.a = na,
                    !.d = IF WritesD(dest) THEN answer ELSE cpu.d,
                    !.ram = IF WritesM(dest) THEN RamPut(cpu.ram, na, answer) ELSE cpu.ram]

\* The match on c.dest: RAM[A] is written before A is.
StoreDest(dest, answer, cpu) ==
    [cpu EXCEPT !.ram = IF WritesM(dest) THEN RamPut(cpu.ram, cpu.a, answer) ELSE cpu.ram,
                !.a = IF WritesA(dest) THEN answer ELSE cpu.a,
                !.d = IF WritesD(dest) THEN answer ELSE cpu.d]

\* A mutant of JumpTaken: no jump is taken.
JumpTakenNever(jump, answer) == FALSE

\* A mutant of JumpTaken: JGT also jumps on zero.
JumpTakenJGTOnZero(jump, answer) ==
    CASE jump = "None" -> FALSE
      [] jump = "JGT" -> answer >= 0
      [] jump = "JEQ" -> answer = 0
      [] jump = "JGE" -> answer >= 0
      [] jump = "JLT" -> answer < 0
      [] jump = "JNE" -> answer # 0
      [] jump = "JLE" -> answer <= 0
      [] jump = "JMP" -> TRUE

\* The conditions of the match on c.jump.
JumpTaken(jump, answer) ==
    CASE jump = "None" -> FALSE
      [] jump = "JGT" -> answer > 0
      [] jump = "JEQ" -> answer = 0
      [] jump = "JGE" -> answer >= 0
      [] jump = "JLT" -> answer < 0
      [] jump = "JNE" -> answer # 0
      [] jump = "JLE" -> answer <= 0
      [] jump = "JMP" -> TRUE

\* c_instruction with the jump to the A the instruction began with.
c_instructionJumpsToOldA(cpu, c) ==
    IF (c.comp \in CompsM \/ WritesM(c.dest)) /\ ~RamIndexOk(cpu.a)
    THEN [cpu EXCEPT !.fault = "ram_index"]
    ELSE LET m == RamGet(cpu.ram, cpu.a)
             answer == Compute(c.comp, cpu.a, cpu.d, m)
             stored == StoreDest(c.dest, answer, cpu)
         IN  [stored EXCEPT !.pc = IF JumpTaken(c.jump, answer)
                                   THEN AsU16(cpu.a)
                                   ELSE cpu.pc + 1]

\* Executes a C instruction.  Indexing the RAM out of bounds panics.
c_instruction(cpu, c) ==
    IF (c.comp \in CompsM \/ WritesM(c.dest)) /\ ~RamIndexOk(cpu.a)
    THEN [cpu EXCEPT !.fault = "ram_index"]
    ELSE LET m == RamGet(cpu.ram, cpu.a)
             answer == Compute(c.comp, cpu.a, cpu.d, m)
             stored == StoreDest(c.dest, answer, cpu)
         IN  [stored EXCEPT !.pc = IF JumpTaken(c.jump, answer)
                                   THEN AsU16(stored.a)
                                   ELSE cpu.pc + 1]

\* A mutant of a_instruction: the program counter is not advanced.
a_instructionNoAdvance(cpu, ins) == [cpu EXCEPT !.a = ins.dest]

\* Executes an A instruction.
a_instruction(cpu, ins) == [cpu EXCEPT !.a = ins.dest, !.pc = cpu.pc + 1]

\* A mutant of interpret: a C instruction only advances the program counter.
interpretAddressesOnly(cpu, instruction) ==
    CASE instruction.type = "A" -> a_instruction(cpu, instruction)
      [] instruction.type \in {"C", "Label", "None"} -> [cpu EXCEPT !.pc = cpu.pc + 1]

\* Executes one instruction.
interpret(cpu, instruction) ==
    CASE instruction.type = "A" -> a_instruction(cpu, instruction)
      [] instruction.type = "C" -> c_instruction(cpu, instruction)
      [] instruction.type \in {"Label", "None"} -> [cpu EXCEPT !.pc = cpu.pc + 1]

\* reset_ram as a reset of the whole CPU but pc.
reset_ramAndRegisters(cpu) == [cpu EXCEPT !.ram = <<>>, !.a = 0, !.d = 0]

\* Resets the RAM to all zeroes.
reset_ram(cpu) == [cpu EXCEPT !.ram = <<>>]

-----------------------------------------------------------------------------
(* Text: a tuple of one-character strings.                                 *)

StartsWith(line, c) == Len(line) > 0 /\ line[1] = c

EndsWith(line, c) == Len(line) > 0 /\ line[Len(line)] = c

Contains(line, c) == \E i \in 1..Len(line) : line[i] = c

\* The comment marker COMMENT_BEGIN, "//", stands at position i of the line.
CommentAt(line, i) == i + 1 <= Len(line) /\ line[i] = "/" /\ line[i + 1] = "/"

\* line.find(COMMENT_BEGIN): the position of the first marker, 0 for None.
FindComment(line) ==
    LET hits == {i \in 1..Len(line) : CommentAt(line, i)}
    IN  IF hits = {} THEN 0 ELSE CHOOSE i \in hits : \A j \in hits : i <= j

RECURSIVE TrimStart(_)
TrimStart(s) == IF Len(s) > 0 /\ s[1] = " " THEN TrimStart(Tail(s)) ELSE s

RECURSIVE TrimEnd(_)
TrimEnd(s) ==
    IF Len(s) > 0 /\ s[Len(s)] = " " THEN TrimEnd(SubSeq(s, 1, Len(s) - 1)) ELSE s

\* str::trim
Trim(s) == TrimEnd(TrimStart(s))

\* line.replace(' ', "")
RemoveSpaces(s) == SelectSeq(s, LAMBDA c : c # " ")

DigitValue == ("0" :> 0) @@ ("1" :> 1) @@ ("2" :> 2) @@ ("3" :> 3) @@ ("4" :> 4) @@ ("5" :> 5) @@ ("6" :> 6) @@ ("7" :> 7) @@ ("8" :> 8) @@ ("9" :> 9)

\* The decimal digits of the natural n, most significant first.
RECURSIVE Digits(_)
Digits(n) ==
    LET digit == CHOOSE c \in DOMAIN DigitValue : DigitValue[c] = n % 10
    IN  IF n < 10 THEN <<digit>> ELSE Append(Digits(n \div 10), digit)

\* u16::to_string
U16ToString(n) == Digits(n)

\* The value of a string of decimal digits; -1 when it exceeds limit.
RECURSIVE DigitsValue(_, _, _)
DigitsValue(s, acc, limit) ==
    IF s = <<>> THEN acc
    ELSE LET next == acc * 10 + DigitValue[Head(s)]
         IN  IF next > limit THEN -1 ELSE DigitsValue(Tail(s), next, limit)

AllDigits(s) == Len(s) > 0 /\ \A i \in 1..Len(s) : s[i] \in DOMAIN DigitValue

\* str::parse::<u16>: an optional "+", then decimal digits, at most 65535.
ParseU16(s) ==
    LET body == IF StartsWith(s, "+") THEN Tail(s) ELSE s
        value == DigitsValue(body, 0, U16_MODULUS - 1)
    IN  IF AllDigits(body) /\ value >= 0
        THEN [ok |-> TRUE, value |-> value]
        ELSE [ok |-> FALSE]

\* str::parse::<i16>: an optional sign, then decimal digits, in -32768..32767.
ParseI16(s) ==
    LET negative == StartsWith(s, "-")
        body == IF negative \/ StartsWith(s, "+") THEN Tail(s) ELSE s
        value == DigitsValue(body, 0, IF negative THEN 0 - I16_MIN ELSE I16_MAX)
    IN  IF AllDigits(body) /\ value >= 0
        THEN [ok |-> TRUE, value |-> IF negative THEN 0 - value ELSE value]
        ELSE [ok |-> FALSE]

-----------------------------------------------------------------------------
(* Building instructions from text (instructions.rs).                      *)

\* The match of Destination::new.
DestinationOf ==
    (<<>> :> "None") @@ (<<"A">> :> "A") @@ (<<"M">> :> "M") @@ (<<"D">> :> "D") @@
    (<<"M", "D">> :> "MD") @@ (<<"A", "M">> :> "AM") @@ (<<"A", "D">> :> "AD") @@
    (<<"A", "M", "D">> :> "AMD")

\* The match of Jump::new.
JumpOf ==
    (<<>> :> "None") @@ (<<"J", "G", "T">> :> "JGT") @@ (<<"J", "E", "Q">> :> "JEQ") @@
    (<<"J", "G", "E">> :> "JGE") @@ (<<"J", "L", "T">> :> "JLT") @@
    (<<"J", "N", "E">> :> "JNE") @@ (<<"J", "L", "E">> :> "JLE") @@
    (<<"J", "M", "P">> :> "JMP")

\* The match of Comp::new.
CompOf ==
    (<<"0">> :> "Zero") @@ (<<"1">> :> "One") @@ (<<"-", "1">> :> "MinusOne") @@
    (<<"D">> :> "D") @@ (<<"A">> :> "A") @@ (<<"!", "D">> :> "NotD") @@
    (<<"!", "A">> :> "NotA") @@ (<<"-", "D">> :> "MinusD") @@
    (<<"-", "A">> :> "MinusA") @@ (<<"D", "+", "1">> :> "DPlusOne") @@
    (<<"A", "+", "1">> :> "APlusOne") @@ (<<"D", "-", "1">> :> "DMinusOne") @@
    (<<"A", "-", "1">> :> "AMinusOne") @@ (<<"D", "+", "A">> :> "DPlusA") @@
    (<<"D", "-", "A">> :> "DMinusA") @@ (<<"A", "-", "D">> :> "AMinusD") @@
    (<<"D", "&", "A">> :> "DAndA") @@ (<<"D", "|", "A">> :> "DOrA") @@
    (<<"M">> :> "M") @@ (<<"!", "M">> :> "NotM") @@ (<<"-", "M">> :> "MinusM") @@
    (<<"M", "+", "1">> :> "MPlusOne") @@ (<<"M", "-", "1">> :> "MMinusOne") @@
    (<<"D", "+", "M">> :> "DPlusM") @@ (<<"D", "-", "M">> :> "DMinusM") @@
    (<<"M", "-", "D">> :> "MMinusD") @@ (<<"D", "&", "M">> :> "DAndM") @@
    (<<"D", "|", "M">> :> "DOrM") @@ (<<"A", "<", "<">> :> "LeftShiftA") @@
    (<<"D", "<", "<">> :> "LeftShiftD") @@ (<<"M", "<", "<">> :> "LeftShiftM") @@
    (<<"A", ">", ">">> :> "RightShiftA") @@ (<<"D", ">", ">">> :> "RightShiftD") @@
    (<<"M", ">", ">">> :> "RightShiftM")

\* A::new: the operand parsed as an i16; a failure panics.
A_new(dest) ==
    LET r == ParseI16(dest)
    IN  IF r.ok THEN [ok |-> TRUE, value |-> InstrA(r.value)]
        ELSE [ok |-> FALSE, panic |-> "A::new"]

\* C::new: the three mnemonics looked up in turn; an unknown one panics.
C_new(dest, comp, jump) ==
    IF dest \notin DOMAIN DestinationOf THEN [ok |-> FALSE, panic |-> "Destination::new"]
    ELSE IF comp \notin DOMAIN CompOf THEN [ok |-> FALSE, panic |-> "Comp::new"]
    ELSE IF jump \notin DOMAIN JumpOf THEN [ok |-> FALSE, panic |-> "Jump::new"]
    ELSE [ok |-> TRUE, value |-> InstrC(DestinationOf[dest], CompOf[comp], JumpOf[jump])]

-----------------------------------------------------------------------------
(* The symbol table (symbol_table.rs): [table, current_variable].          *)

SeededTable ==
    (<<"R", "0">> :> 0) @@ (<<"R", "1">> :> 1) @@ (<<"R", "2">> :> 2) @@
    (<<"R", "3">> :> 3) @@ (<<"R", "4">> :> 4) @@ (<<"R", "5">> :> 5) @@
    (<<"R", "6">> :> 6) @@ (<<"R", "7">> :> 7) @@ (<<"R", "8">> :> 8) @@
    (<<"R", "9">> :> 9) @@ (<<"R", "1", "0">> :> 10) @@ (<<"R", "1", "1">> :> 11) @@
    (<<"R", "1", "2">> :> 12) @@ (<<"R", "1", "3">> :> 13) @@
    (<<"R", "1", "4">> :> 14) @@ (<<"R", "1", "5">> :> 15) @@
    (<<"S", "C", "R", "E", "E", "N">> :> 16384) @@ (<<"K", "B", "D">> :> 24576) @@
    (<<"S", "P">> :> 0) @@ (<<"L", "C", "L">> :> 1) @@ (<<"A", "R", "G">> :> 2) @@
    (<<"T", "H", "I", "S">> :> 3) @@ (<<"T", "H", "A", "T">> :> 4)

\* SymbolTable::new()
NewSymbolTable == [table |-> SeededTable, current_variable |-> FIRST_VARIABLE]

\* HashMap::insert: the binding of key is set, or replaced.
Insert(t, key, value) ==
    [k \in DOMAIN t \cup {key} |-> IF k = key THEN value ELSE t[k]]

-----------------------------------------------------------------------------
(* The parser (parser.rs).  An array of lines is a function on             *)
(* 0..MAX_INSTRUCTIONS-1.                                                  *)

Slots == 0..(MAX_INSTRUCTIONS - 1)

\* The array holding the lines of src, then empty strings.
LineArray(src) == [i \in Slots |-> IF i < Len(src) THEN src[i + 1] ELSE <<>>]

RECURSIVE clear_whitespace_from(_, _, _, _)
\* The loop of clear_whitespace from line i on.
clear_whitespace_from(lines, i, count, out) ==
    IF i = MAX_INSTRUCTIONS THEN out
    ELSE LET line == lines[i]
             at == FindComment(line)
         IN  IF line = <<>> \/ CommentAt(line, 1)
             THEN clear_whitespace_from(lines, i + 1, count + 1, out)
             ELSE IF at # 0
             THEN clear_whitespace_from(lines, i + 1, count,
                      [out EXCEPT ![i - count] =
                          RemoveSpaces(Trim(SubSeq(line, 1, at - 1)))])
             ELSE clear_whitespace_from(lines, i + 1, count,
                      [out EXCEPT ![i - count] = RemoveSpaces(line)])

\* Clears empty lines, comments and spaces out of the source.
clear_whitespace(lines) ==
    clear_whitespace_from(lines, 0, 0, [i \in Slots |-> <<>>])

\* line.starts_with(LABEL_BEGIN) && line.ends_with(LABEL_END)
IsLabelLine(line) == StartsWith(line, "(") /\ EndsWith(line, ")")

\* line[1..line.len() - 1]
LabelName(line) == SubSeq(line, 2, Len(line) - 1)

\* line[1..]
Operand(line) == SubSeq(line, 2, Len(line))

RECURSIVE labels_fromRawIndex(_, _, _, _)
\* A mutant of labels_from: a label is bound to its raw line index, the labels
\* before it not subtracted.
labels_fromRawIndex(lines, i, labels_count, table) ==
    IF i = MAX_INSTRUCTIONS THEN table
    ELSE IF IsLabelLine(lines[i])
    THEN labels_fromRawIndex(lines, i + 1, labels_count + 1,
             Insert(table, LabelName(lines[i]), AsU16(i)))
    ELSE labels_fromRawIndex(lines, i + 1, labels_count, table)

RECURSIVE labels_from(_, _, _, _)
\* The first loop of labels_and_variables from line i on.
labels_from(lines, i, labels_count, table) ==
    IF i = MAX_INSTRUCTIONS THEN table
    ELSE IF IsLabelLine(lines[i])
    THEN labels_from(lines, i + 1, labels_count + 1,
             Insert(table, LabelName(lines[i]), AsU16(i - labels_count)))
    ELSE labels_from(lines, i + 1, labels_count, table)

RECURSIVE variables_fromLiteralAdvances(_, _, _)
\* A mutant of variables_from: binding a numeric literal advances the cursor too.
variables_fromLiteralAdvances(lines, i, st) ==
    IF i = MAX_INSTRUCTIONS THEN st
    ELSE LET line == lines[i]
             potential_var == Operand(line)
             pv == ParseU16(potential_var)
         IN  IF line # <<>> /\ StartsWith(line, "@") /\ potential_var \notin DOMAIN st.table
             THEN variables_fromLiteralAdvances(lines, i + 1,
                      [table |-> Insert(st.table, potential_var,
                                        IF pv.ok THEN pv.value ELSE st.current_variable),
                       current_variable |-> st.current_variable + 1])
             ELSE variables_fromLiteralAdvances(lines, i + 1, st)

RECURSIVE variables_from(_, _, _)
\* The second loop of labels_and_variables from line i on.
variables_from(lines, i, st) ==
    IF i = MAX_INSTRUCTIONS THEN st
    ELSE LET line == lines[i]
             potential_var == Operand(line)
             pv == ParseU16(potential_var)
         IN  IF line # <<>> /\ StartsWith(line, "@") /\ potential_var \notin DOMAIN st.table
             THEN IF pv.ok
                  THEN variables_from(lines, i + 1,
                           [st EXCEPT !.table = Insert(st.table, potential_var, pv.value)])
                  ELSE variables_from(lines, i + 1,
                           [table |-> Insert(st.table, potential_var, st.current_variable),
                            current_variable |-> st.current_variable + 1])
             ELSE variables_from(lines, i + 1, st)

\* A mutant of labels_and_variables: the variables are scanned before the labels.
labels_and_variablesVariablesFirst(lines, st) ==
    LET vs == variables_from(lines, 0, st)
    IN  [vs EXCEPT !.table = labels_from(lines, 0, 0, vs.table)]

\* Scans the cleaned lines for labels, then for variables, and stores them in the
\* symbol table.
labels_and_variables(lines, st) ==
    variables_from(lines, 0, [st EXCEPT !.table = labels_from(lines, 0, 0, st.table)])

RECURSIVE split_from(_, _, _, _)
split_from(line, i, current, tokens) ==
    IF i > Len(line) THEN Append(tokens, current)
    ELSE IF line[i] \in {" ", ",", "=", ";"}
    THEN split_from(line, i + 1, <<>>, Append(tokens, current))
    ELSE split_from(line, i + 1, Append(current, line[i]), tokens)

\* Regex [ ,=;] split of the line: its parts between the delimiters.
split_line(line) == split_from(line, 1, <<>>, <<>>)

\* A mutant of DecodeC: token 0 of a line of three tokens is looked up among
\* the destination mnemonics.
DecodeCMnemonicDest(line, i, table) ==
    LET temp_line == split_line(line)
    IN  IF Len(temp_line) = 2
        THEN IF Contains(line, ";")
             THEN C_new(<<>>, temp_line[1], temp_line[2])
             ELSE C_new(temp_line[1], temp_line[2], <<>>)
        ELSE IF Len(temp_line) < 3
        THEN [ok |-> FALSE, panic |-> "index"]
        ELSE C_new(temp_line[1], temp_line[2], temp_line[3])

\* The decoding of one compute line at index i: an instruction, the error
\* InvalidLine, or a panic.
DecodeC(line, i, table) ==
    LET temp_line == split_line(line)
    IN  IF Len(temp_line) = 2
        THEN IF Contains(line, ";")
             THEN C_new(<<>>, temp_line[1], temp_line[2])
             ELSE C_new(temp_line[1], temp_line[2], <<>>)
        ELSE IF temp_line[1] \notin DOMAIN table
        THEN [ok |-> FALSE, error |-> [line_number |-> AsU16(i), text |-> line]]
        ELSE IF Len(temp_line) < 3
        THEN [ok |-> FALSE, panic |-> "index"]
        ELSE C_new(U16ToString(table[temp_line[1]]), temp_line[2], temp_line[3])

RECURSIVE decode_fromKeepsLabels(_, _, _, _, _)
\* decode_from with a label line stored in its own slot as Instruction::Label.
decode_fromKeepsLabels(lines, table, i, offset, parsed_lines) ==
    IF i = MAX_INSTRUCTIONS THEN [kind |-> "Ok", instructions |-> parsed_lines]
    ELSE LET line == lines[i]
         IN  IF line = <<>>
             THEN decode_fromKeepsLabels(lines, table, i + 1, offset, parsed_lines)
             ELSE IF ~StartsWith(line, "@") /\ IsLabelLine(line)
             THEN decode_fromKeepsLabels(lines, table, i + 1, offset,
                      [parsed_lines EXCEPT ![i] = InstrLabel(LabelName(line))])
             ELSE LET r == IF StartsWith(line, "@")
                           THEN A_new(U16ToString(table[Operand(line)]))
                           ELSE DecodeC(line, i, table)
                  IN  IF r.ok
                      THEN decode_fromKeepsLabels(lines, table, i + 1, offset,
                               [parsed_lines EXCEPT ![i - offset] = r.value])
                      ELSE IF "error" \in DOMAIN r
                      THEN [kind |-> "Err", error |-> r.error]
                      ELSE [kind |-> "Panic", panic |-> r.panic]

RECURSIVE decode_from(_, _, _, _, _)
\* The decoding loop of parse from line i on.
decode_from(lines, table, i, offset, parsed_lines) ==
    IF i = MAX_INSTRUCTIONS THEN [kind |-> "Ok", instructions |-> parsed_lines]
    ELSE LET line == lines[i]
         IN  IF line = <<>>
             THEN decode_from(lines, table, i + 1, offset, parsed_lines)
             ELSE IF ~StartsWith(line, "@") /\ IsLabelLine(line)
             THEN decode_from(lines, table, i + 1, offset + 1, parsed_lines)
             ELSE LET r == IF StartsWith(line, "@")
                           THEN A_new(U16ToString(table[Operand(line)]))
                           ELSE DecodeC(line, i, table)
                  IN  IF r.ok
                      THEN decode_from(lines, table, i + 1, offset,
                               [parsed_lines EXCEPT ![i - offset] = r.value])
                      ELSE IF "error" \in DOMAIN r
                      THEN [kind |-> "Err", error |-> r.error]
                      ELSE [kind |-> "Panic", panic |-> r.panic]

\* parse: the result, with the symbol table as parse leaves it.
parse(lines, st) ==
    LET whitespace_cleaned_lines == clear_whitespace(lines)
        filled == labels_and_variables(whitespace_cleaned_lines, st)
        result == decode_from(whitespace_cleaned_lines, filled.table, 0, 0,
                              [i \in Slots |-> InstrNone])
    IN  [result |-> result, address_table |-> filled]

-----------------------------------------------------------------------------
(* The state as records.                                                   *)

\* The registers and memory of the CPUState, with the panic flag.
Cpu == [a |-> a, d |-> d, pc |-> pc, ram |-> ram, fault |-> fault]

\* CPUState::new(): zeroed registers and RAM.
NewCpu == [a |-> 0, d |-> 0, pc |-> 0, ram |-> <<>>, fault |-> "none"]

\* The variables of the CPU take the values of the CPU value c.
SetCpu(c) ==
    /\ a' = c.a
    /\ d' = c.d
    /\ pc' = c.pc
    /\ ram' = c.ram
    /\ fault' = c.fault

-----------------------------------------------------------------------------
(* The files given to the emulator: a tuple of lines.                      *)

\* RAM[0] = 2 + 3, then the filler slots to the end of the array.
ProgramSum ==
    <<<<"@", "2">>,
      <<"D", "=", "A">>,
      <<"@", "3">>,
      <<"D", "=", "D", "+", "A">>,
      <<"@", "0">>,
      <<"M", "=", "D">>>>

\* A jump over D=1 to a label declared later; no comp is written 2, and
\* Comp::new panics on it.
ProgramJump ==
    <<<<"@", "E", "N", "D">>,
      <<"0", ";", "J", "M", "P">>,
      <<"D", "=", "1">>,
      <<"(", "E", "N", "D", ")">>,
      <<"D", "=", "2">>>>

\* ProgramJump with the comp -1 for 2.
ProgramSkip ==
    <<<<"@", "E", "N", "D">>,
      <<"0", ";", "J", "M", "P">>,
      <<"D", "=", "1">>,
      <<"(", "E", "N", "D", ")">>,
      <<"D", "=", "-", "1">>>>

\* A jump to A = -1, pc 65535.
ProgramWild ==
    <<<<"A", "=", "-", "1">>,
      <<"0", ";", "J", "M", "P">>>>

\* A loop that never ends, and a variable after it.
ProgramLoop ==
    <<<<"(", "L", "O", "O", "P", ")">>,
      <<"@", "L", "O", "O", "P">>,
      <<"0", ";", "J", "M", "P">>,
      <<"@", "x">>>>

\* A line of three tokens whose destination is no symbol: Err(InvalidLine).
ProgramInvalid ==
    <<<<"D", "=", "D", "+", "1", ";", "J", "G", "T">>>>

\* An access to M with A = -1, no word of the RAM.
ProgramPoke ==
    <<<<"A", "=", "-", "1">>,
      <<"M", "=", "D">>>>

\* D = the address of the variable i.
ProgramVariable ==
    <<<<"@", "i">>,
      <<"D", "=", "A">>>>

\* RAM[0] = the keyboard register, then the filler slots.
ProgramKeyboard ==
    <<<<"@", "K", "B", "D">>,
      <<"D", "=", "M">>,
      <<"@", "0">>,
      <<"M", "=", "D">>>>

\* The files of the Open dialog.
Programs == {ProgramVariable, ProgramJump, ProgramInvalid}

\* The lines of a file as they are handed to parse: each trimmed, in an array
\* of MAX_INSTRUCTIONS strings.
FileLines(src) == LineArray([i \in 1..Len(src) |-> Trim(src[i])])

\* parse of every file on a new symbol table, computed once.
ParsedOnNewTable ==
    [lines \in {FileLines(src) : src \in {f \in Programs : Len(f) <= MAX_INSTRUCTIONS}}
        |-> parse(lines, NewSymbolTable)]

\* parse(lines, st), looked up where it is computed already.
parse_cached(lines, st) ==
    IF st = NewSymbolTable /\ lines \in DOMAIN ParsedOnNewTable
    THEN ParsedOnNewTable[lines]
    ELSE parse(lines, st)

-----------------------------------------------------------------------------
(* The run controller (hack_gui.rs): one call of show_textures is one      *)
(* frame.  A frame handles at most one widget event; while running it      *)
(* executes a batch.  A GUI value is [cpu, address_table, breakpoints,     *)
(* instructions, num_labels, running, program_error].                      *)

Gui ==
    [cpu |-> Cpu, address_table |-> address_table, breakpoints |-> breakpoints,
     instructions |-> instructions, num_labels |-> num_labels, running |-> running,
     program_error |-> program_error]

\* Breakpoint::A(v), D(v), PC(v), RAM(n, v)
BreakpointA(v) == [kind |-> "A", v |-> v]

BreakpointD(v) == [kind |-> "D", v |-> v]

BreakpointPC(v) == [kind |-> "PC", v |-> v]

BreakpointRAM(n, v) == [kind |-> "RAM", n |-> n, v |-> v]

\* The breakpoint reads the RAM outside the array: `ram[*n as usize]` panics.
BreakpointOutOfRam(bp) == bp.kind = "RAM" /\ bp.n >= MAX_RAM

\* The equality each arm of the match on the breakpoint tests.
BreakpointHolds(bp, cpu) ==
    CASE bp.kind = "A" -> cpu.a = bp.v
      [] bp.kind = "D" -> cpu.d = bp.v
      [] bp.kind = "PC" -> cpu.pc = bp.v
      [] bp.kind = "RAM" -> bp.n < MAX_RAM /\ RamGet(cpu.ram, bp.n) = bp.v

\* The loop over the breakpoint set after an instruction: "hit" when one holds,
\* "panic" when one indexes the RAM out of bounds, "miss" otherwise.  The set is
\* a HashSet, visited in no specified order: with both a holding and an
\* out-of-bounds breakpoint, oob_first tells which is visited first.
CheckBreakpoints(cpu, bps, oob_first) ==
    LET hit == \E bp \in bps : BreakpointHolds(bp, cpu)
        oob == \E bp \in bps : BreakpointOutOfRam(bp)
    IN  IF oob /\ (~hit \/ oob_first) THEN "panic"
        ELSE IF hit THEN "hit"
        ELSE "miss"

\* self.cpu.ram[KBD_LOCATION] = the key's code, 0 for no key.
WriteKeyboard(cpu, key) == [cpu EXCEPT !.ram = RamPut(cpu.ram, KBD_LOCATION, key)]

\* The outcome of a batch: the CPU, the running flag and the trace, the pc of
\* every fetch with the CPU after the instruction.
BatchOutcome(cpu, run, trace) == [cpu |-> cpu, running |-> run, trace |-> trace]

RECURSIVE run_from(_, _, _, _, _, _)
RECURSIVE after_instruction(_, _, _, _, _, _, _)
\* after_instruction with `break` for `break 'instructions`: a breakpoint that
\* holds clears running and the batch goes on.
after_instructionRunsOn(n, fetched, next, instrs, bps, oob_first, trace) ==
    LET check == CheckBreakpoints(next, bps, oob_first)
        traced == Append(trace, [fetch |-> fetched, cpu |-> next])
        rest == run_from(n + 1, next, instrs, bps, oob_first, traced)
    IN  IF next.fault # "none"
        THEN BatchOutcome(next, TRUE, traced)
        ELSE IF check = "panic"
        THEN BatchOutcome([next EXCEPT !.fault = "ram_index"], TRUE, traced)
        ELSE IF check = "hit"
        THEN [rest EXCEPT !.running = FALSE]
        ELSE rest

\* run_from with pc wrapped to 0 at the bound, and the run going on.
run_fromWrapsAround(n, cpu, instrs, bps, oob_first, trace) ==
    IF n = INSTRUCTIONS_PER_REFRESH
    THEN BatchOutcome(cpu, TRUE, trace)
    ELSE IF cpu.pc >= MAX_INSTRUCTIONS
    THEN BatchOutcome([cpu EXCEPT !.pc = 0], TRUE, trace)
    ELSE after_instruction(n, cpu.pc, interpret(cpu, instrs[cpu.pc]), instrs, bps,
                           oob_first, trace)

\* The 'instructions loop of a running frame from iteration n on.
run_from(n, cpu, instrs, bps, oob_first, trace) ==
    IF n = INSTRUCTIONS_PER_REFRESH
    THEN BatchOutcome(cpu, TRUE, trace)
    ELSE IF cpu.pc >= MAX_INSTRUCTIONS
    THEN BatchOutcome([cpu EXCEPT !.pc = MAX_INSTRUCTIONS - 1], FALSE, trace)
    ELSE after_instruction(n, cpu.pc, interpret(cpu, instrs[cpu.pc]), instrs, bps,
                           oob_first, trace)

\* The rest of iteration n once interpret has left the CPU next: the loop over
\* the breakpoints, then the next iteration.
after_instruction(n, fetched, next, instrs, bps, oob_first, trace) ==
    LET check == CheckBreakpoints(next, bps, oob_first)
        traced == Append(trace, [fetch |-> fetched, cpu |-> next])
    IN  IF next.fault # "none"
        THEN BatchOutcome(next, TRUE, traced)
        ELSE IF check = "panic"
        THEN BatchOutcome([next EXCEPT !.fault = "ram_index"], TRUE, traced)
        ELSE IF check = "hit"
        THEN BatchOutcome(next, FALSE, traced)
        ELSE run_from(n + 1, next, instrs, bps, oob_first, traced)

\* The end of `if self.running { ... }`: the keyboard register.
AfterBatch(g, key, r) ==
    [gui |-> [g EXCEPT !.cpu = IF r.cpu.fault = "none" THEN WriteKeyboard(r.cpu, key)
                                ELSE r.cpu,
                       !.running = r.running],
     trace |-> r.trace]

\* RunBatch with the breakpoints checked before the first instruction too.
RunBatchChecksFirst(g, key, oob_first) ==
    IF ~g.running THEN [gui |-> g, trace |-> <<>>]
    ELSE IF CheckBreakpoints(g.cpu, g.breakpoints, oob_first) = "hit"
    THEN AfterBatch(g, key, BatchOutcome(g.cpu, FALSE, <<>>))
    ELSE AfterBatch(g, key,
                    run_from(0, g.cpu, g.instructions, g.breakpoints, oob_first, <<>>))

\* `if self.running { ... }`: the batch, then the keyboard register.
RunBatch(g, key, oob_first) ==
    IF ~g.running THEN [gui |-> g, trace |-> <<>>]
    ELSE AfterBatch(g, key,
                    run_from(0, g.cpu, g.instructions, g.breakpoints, oob_first, <<>>))

\* The end of the Step button once interpret has left the CPU next: the
\* keyboard register.
AfterStep(g, key, next) ==
    [g EXCEPT !.cpu = IF next.fault = "none" THEN WriteKeyboard(next, key) ELSE next]

\* The Step button: the instruction at pc, fetched without a bounds check, then
\* the keyboard register.
StepOnce(g, key) ==
    IF g.cpu.pc >= MAX_INSTRUCTIONS
    THEN [g EXCEPT !.cpu.fault = "rom_index"]
    ELSE AfterStep(g, key, interpret(g.cpu, g.instructions[g.cpu.pc]))

\* The count of Label entries of an instruction array.
CountLabels(instrs) == Cardinality({i \in Slots : instrs[i].type = "Label"})

\* CPUState::reset_address_table: a new seeded table.
reset_address_table(cpu) == NewSymbolTable

\* Option::None of HackGUI.program_error; Some(InvalidLine(n, text)) is the
\* record [line_number |-> n, text |-> text].
NoProgramError == [none |-> TRUE]

\* A mutant of after_parse: a parse error installs the empty program.
after_parseErrClearsProgram(g, r) ==
    CASE r.result.kind = "Ok" ->
             [g EXCEPT !.address_table = r.address_table,
                       !.instructions = r.result.instructions,
                       !.num_labels = CountLabels(r.result.instructions),
                       !.program_error = NoProgramError]
      [] r.result.kind = "Err" ->
             [g EXCEPT !.address_table = r.address_table,
                       !.instructions = [i \in Slots |-> InstrNone],
                       !.num_labels = 0,
                       !.program_error = r.result.error]
      [] r.result.kind = "Panic" ->
             [g EXCEPT !.cpu.fault = r.result.panic]

\* after_parse with the CPU built anew for a program that parsed.
after_parseNewCpu(g, r) ==
    CASE r.result.kind = "Ok" ->
             [g EXCEPT !.cpu = NewCpu,
                       !.address_table = r.address_table,
                       !.instructions = r.result.instructions,
                       !.num_labels = CountLabels(r.result.instructions),
                       !.program_error = NoProgramError]
      [] r.result.kind = "Err" ->
             [g EXCEPT !.address_table = r.address_table,
                       !.program_error = r.result.error]
      [] r.result.kind = "Panic" ->
             [g EXCEPT !.cpu.fault = r.result.panic]

\* The rest of new_program once parse has returned r, and the match on the
\* result at the Open button.
after_parse(g, r) ==
    CASE r.result.kind = "Ok" ->
             [g EXCEPT !.address_table = r.address_table,
                       !.instructions = r.result.instructions,
                       !.num_labels = CountLabels(r.result.instructions),
                       !.program_error = NoProgramError]
      [] r.result.kind = "Err" ->
             [g EXCEPT !.address_table = r.address_table,
                       !.program_error = r.result.error]
      [] r.result.kind = "Panic" ->
             [g EXCEPT !.cpu.fault = r.result.panic]

\* A mutant of new_program: the table is not reset, and the new program is
\* parsed on the symbols of the old one.
new_programMerges(g, lines) == after_parse(g, parse_cached(lines, g.address_table))

\* HackGUI::new_program: reset_address_table, then parse.
new_program(g, lines) ==
    after_parse(g, parse_cached(lines, reset_address_table(g.cpu)))

\* The Open button: a file of more than MAX_INSTRUCTIONS lines is refused.
OpenFile(g, src) ==
    IF Len(src) > MAX_INSTRUCTIONS THEN g
    ELSE new_program(g, FileLines(src))

\* The Breakpoints pane: every breakpoint is displayed when the pane is drawn, and
\* displaying one reads the state it watches.
DisplayBreakpoints(g, shown) ==
    IF g.cpu.fault = "none" /\ shown /\ \E bp \in g.breakpoints : BreakpointOutOfRam(bp)
    THEN [g EXCEPT !.cpu.fault = "ram_index"]
    ELSE g

\* The frame leaves the GUI value g, or the panic that ended the process.
Leave(g) ==
    IF g.cpu.fault # "none"
    THEN /\ fault' = g.cpu.fault
         /\ UNCHANGED <<a, d, pc, ram, address_table, breakpoints, instructions,
                        num_labels, running, program_error>>
    ELSE /\ SetCpu(g.cpu)
         /\ address_table' = g.address_table
         /\ breakpoints' = g.breakpoints
         /\ instructions' = g.instructions
         /\ num_labels' = g.num_labels
         /\ running' = g.running
         /\ program_error' = g.program_error

-----------------------------------------------------------------------------
(* SpecInterp: interpret applied once to a CPU state and an instruction    *)
(* drawn from bounded sets.                                                *)

InterpA == {0, 1, 5, 24577, -1}

InterpD == {0, 7, -2, I16_MAX, I16_MIN}

InterpPc == {2}

InterpRam == {<<>>, (1 :> 9) @@ (5 :> -3) @@ (7 :> 2)}

InterpInstructions ==
    {InstrA(n) : n \in {0, 5, I16_MAX}}
    \cup {InstrC(dest, comp, jump) : dest \in Destinations, comp \in Comps, jump \in Jumps}
    \cup {InstrLabel(<<"L">>), InstrNone}

InitInterp ==
    /\ a \in InterpA
    /\ d \in InterpD
    /\ pc \in InterpPc
    /\ ram \in InterpRam
    /\ address_table = NewSymbolTable
    /\ breakpoints = {}
    /\ instructions = [i \in Slots |-> InstrNone]
    /\ num_labels = 0
    /\ running = FALSE
    /\ program_error = NoProgramError
    /\ fault = "none"
    /\ loads = 0
    /\ last = [op |-> "init"]

\* One call of CPUState::interpret.
Interpret(instr) ==
    /\ last.op = "init"
    /\ SetCpu(interpret(Cpu, instr))
    /\ last' = [op |-> "interpret", instr |-> instr, pre |-> Cpu]
    /\ UNCHANGED <<address_table, breakpoints, instructions, num_labels, running,
                   program_error, loads>>

NextInterp == \E instr \in InterpInstructions : Interpret(instr)

SpecInterp == InitInterp /\ [][NextInterp]_vars

\* The last operation was an interpret call of a C instruction that returned.
InterpretedC == last.op = "interpret" /\ last.instr.type = "C" /\ fault = "none"

\* The ALU result of the interpreted C instruction, from the state before it.
LastAnswer ==
    Compute(last.instr.comp, last.pre.a, last.pre.d, RamGet(last.pre.ram, last.pre.a))

-----------------------------------------------------------------------------
(* SpecParse: parse applied once, on a fresh symbol table, to a source     *)
(* drawn from the programs of at most MaxLines lines over ParseLines.      *)

MaxLines == 3

L_At_i == <<"@", "i">>

L_At_j == <<"@", "j">>

L_At_16 == <<"@", "1", "6">>

L_At_70000 == <<"@", "7", "0", "0", "0", "0">>

L_At_END == <<"@", "E", "N", "D">>

L_Label_END == <<"(", "E", "N", "D", ")">>

L_Label_LOOP == <<"(", "L", "O", "O", "P", ")">>

L_At_LOOP == <<"@", "L", "O", "O", "P">>

L_D_eq_A == <<"D", "=", "A">>

L_0_JMP == <<"0", ";", "J", "M", "P">>

L_Comment == <<"/", "/", " ", "c">>

L_M_eq_D_Comment == <<"M", "=", "D", " ", "/", "/", " ", "x">>

ParseLines ==
    {L_At_i, L_At_j, L_At_16, L_At_70000, L_At_END, L_Label_END,
     L_Label_LOOP, L_At_LOOP, L_D_eq_A, L_0_JMP, L_Comment, L_M_eq_D_Comment}

ParseSources == UNION {[1..n -> ParseLines] : n \in 1..MaxLines}

\* The state after construction: CPUState::new() and an empty program.
Fresh ==
    /\ a = 0
    /\ d = 0
    /\ pc = 0
    /\ ram = <<>>
    /\ address_table = NewSymbolTable
    /\ breakpoints = {}
    /\ instructions = [i \in Slots |-> InstrNone]
    /\ num_labels = 0
    /\ running = FALSE
    /\ program_error = NoProgramError
    /\ fault = "none"
    /\ loads = 0

InitParse ==
    /\ Fresh
    /\ \E src \in ParseSources : last = [op |-> "init", source |-> src]

\* One call parse(lines, &mut address_table).
Parse ==
    /\ last.op = "init"
    /\ LET r == parse(LineArray(last.source), address_table)
       IN  /\ address_table' = r.address_table
           /\ instructions' = IF r.result.kind = "Ok" THEN r.result.instructions
                              ELSE instructions
           /\ program_error' = IF r.result.kind = "Err" THEN r.result.error
                               ELSE program_error
           /\ fault' = IF r.result.kind = "Panic" THEN r.result.panic ELSE fault
           /\ last' = [op |-> "parse", source |-> last.source, kind |-> r.result.kind]
    /\ UNCHANGED <<a, d, pc, ram, breakpoints, num_labels, running, loads>>

NextParse == Parse

SpecParse == InitParse /\ [][NextParse]_vars

\* SpecParseErrors: parse applied once, on a fresh symbol table, to a source
\* drawn from the programs of at most MaxLines lines over ParseErrorLines,
\* where lines that are no instruction stand among lines that are.
ParseErrorLines ==
    {<<"D", "=", "2">>,                                \* no comp is written 2
     <<"X", "=", "D">>,                                \* no destination is X
     <<"0", ";", "J", "X", "X">>,                      \* no jump is JXX
     <<"@", "4", "0", "0", "0", "0">>,                 \* a u16 that is no i16
     <<"D">>,                                          \* one token
     <<"D", "=", "D", "+", "1", ";", "J", "G", "T">>,  \* three tokens
     <<"R", "0", "=", "D", ";", "J", "M", "P">>,       \* three tokens, a symbol first
     <<"@", "D">>,                                     \* a variable named D
     L_D_eq_A, L_Label_END, L_Comment, L_At_i}

InitParseErrors ==
    /\ Fresh
    /\ \E src \in UNION {[1..n -> ParseErrorLines] : n \in 1..MaxLines} :
           last = [op |-> "init", source |-> src]

SpecParseErrors == InitParseErrors /\ [][NextParse]_vars

-----------------------------------------------------------------------------
(* Spec: the run controller driven frame by frame.  Init is the GUI with a  *)
(* new CPU and no program; each action is one frame with one widget event.  *)

\* The files the emulator is started on.
StartPrograms == {ProgramSum, ProgramWild, ProgramLoop, ProgramPoke}

\* The code of the key held down during the frame, 0 for none (get_keycode).
KeyCodes == {0}

\* The breakpoints the Debug window can be asked to add.
BreakpointChoices ==
    {BreakpointPC(5), BreakpointD(2), BreakpointRAM(0, 5), BreakpointRAM(30000, 0)}

\* The size the breakpoint set is let grow to.
MaxBreakpoints == 1

\* The number of files a behaviour opens.
MaxLoads == 1

\* The values typed in the pc, A and D boxes and in a RAM row.
PcEdits == {MAX_INSTRUCTIONS}

AEdits == {0}

DEdits == {2}

RamEdits == {<<0, 5>>}

\* main on the file src: the file is parsed on a new CPU, and the GUI is built
\* around the result; a panic of parse ends the process before there is a GUI.
Started(src) ==
    LET r == parse_cached(FileLines(src), NewSymbolTable)
    IN  /\ a = 0
        /\ d = 0
        /\ pc = 0
        /\ ram = <<>>
        /\ address_table = r.address_table
        /\ breakpoints = {}
        /\ instructions = IF r.result.kind = "Ok" THEN r.result.instructions
                          ELSE [i \in Slots |-> InstrNone]
        /\ num_labels = IF r.result.kind = "Ok" THEN CountLabels(r.result.instructions)
                        ELSE 0
        /\ running = FALSE
        /\ program_error = NoProgramError
        /\ fault = IF r.result.kind = "Panic" THEN r.result.panic ELSE "none"
        /\ loads = 0
        /\ last = [op |-> "init", src |-> src]

\* main: the file named on the command line is parsed on a new CPU, and the GUI
\* is built around the result.
Init == \E src \in StartPrograms : Started(src)

\* What a frame found when it began.
Pre == [a |-> a, d |-> d, pc |-> pc, ram |-> ram, running |-> running,
        breakpoints |-> breakpoints]

\* The end of every frame: the Breakpoints pane, then the state left.
Finish(g, shown, record) ==
    /\ Leave(DisplayBreakpoints(g, shown))
    /\ loads' = IF record.op = "Open" THEN loads + 1 ELSE loads
    /\ last' = record

\* The end of a frame whose controls left r, a GUI value with the trace of
\* its batch.
FinishBatch(r, shown, record) ==
    \E done \in {r} : Finish(done.gui, shown, [trace |-> done.trace] @@ record)

\* breakpoints.insert(bp) in the GUI value of r.
Inserted(r, bp) == [r EXCEPT !.gui.breakpoints = @ \cup {bp}]

\* Removed with breakpoints.clear() for breakpoints.remove(&breakpoint).
RemovedClears(r, bp) ==
    [r EXCEPT !.gui = [DisplayBreakpoints(@, TRUE) EXCEPT !.breakpoints = {}]]

\* The Breakpoints pane with the Remove button of bp pressed: every breakpoint
\* is displayed, then bp is removed.
Removed(r, bp) ==
    [r EXCEPT !.gui = [DisplayBreakpoints(@, TRUE) EXCEPT !.breakpoints = @ \ {bp}]]

\* The breakpoint the frame before removed, if it removed one.
JustRemoved == IF last.op = "RemoveBreakpoint" THEN {last.bp} ELSE {}

\* The Stop button.
Stop(shown) ==
    /\ fault = "none"
    /\ running
    /\ Finish([Gui EXCEPT !.running = FALSE], shown, [op |-> "Stop", pre |-> Pre])

\* The Open button with the file picked.
Open(src, shown) ==
    /\ fault = "none"
    /\ ~running
    /\ loads < MaxLoads
    /\ Finish(OpenFile(Gui, src), shown,
              [op |-> "Open", src |-> src, pre |-> Pre,
               program |-> [instructions |-> instructions, num_labels |-> num_labels,
                            address_table |-> address_table]])

\* The Run button: the frame that sets running executes the first batch.
Run(key, oob_first, shown) ==
    /\ fault = "none"
    /\ ~running
    /\ FinishBatch(RunBatch([Gui EXCEPT !.running = TRUE], key, oob_first), shown,
                   [op |-> "Run", key |-> key, pre |-> Pre, removed |-> JustRemoved])

\* The number of frames since main, when each of them was a Step; -1 when
\* another frame came between.  The count stops below MAX_INSTRUCTIONS.
StepsFromStart ==
    IF last.op = "init" THEN 0
    ELSE IF last.op = "Step" /\ last.calls > 0
    THEN IF last.calls < MAX_INSTRUCTIONS THEN last.calls ELSE MAX_INSTRUCTIONS - 1
    ELSE -1

\* The Step button.
Step(key, shown) ==
    /\ fault = "none"
    /\ ~running
    /\ Finish(StepOnce(Gui, key), shown,
              [op |-> "Step", key |-> key, pre |-> Pre, calls |-> StepsFromStart + 1])

\* The Reset button of the controls.
Reset(shown) ==
    /\ fault = "none"
    /\ ~running
    /\ Finish([Gui EXCEPT !.cpu.pc = 0], shown, [op |-> "Reset", pre |-> Pre])

\* A frame without an event while running.
Tick(key, oob_first, shown) ==
    /\ fault = "none"
    /\ running
    /\ FinishBatch(RunBatch(Gui, key, oob_first), shown,
                   [op |-> "Tick", key |-> key, pre |-> Pre, removed |-> JustRemoved])

\* The Add breakpoint button of the Debug window; the controls come first in
\* the frame, so a running CPU executes its batch before the insertion.
AddBreakpoint(bp, key, oob_first, shown) ==
    /\ fault = "none"
    /\ FinishBatch(Inserted(RunBatch(Gui, key, oob_first), bp), shown,
                   [op |-> "AddBreakpoint", bp |-> bp, key |-> key, pre |-> Pre])

\* The Remove button of a displayed breakpoint: the pane displays every
\* breakpoint, then removes the ones whose button was pressed.
RemoveBreakpoint(bp, key, oob_first) ==
    /\ fault = "none"
    /\ bp \in breakpoints
    /\ FinishBatch(Removed(RunBatch(Gui, key, oob_first), bp), FALSE,
                   [op |-> "RemoveBreakpoint", bp |-> bp, key |-> key, pre |-> Pre])

\* The pc box of the ROM pane: the i32 typed is cast to u16.
SetPc(v, shown) ==
    /\ fault = "none"
    /\ ~running
    /\ Finish([Gui EXCEPT !.cpu.pc = v % U16_MODULUS], shown,
              [op |-> "SetPc", v |-> v, pre |-> Pre])

\* The A box of the RAM pane: the i32 typed is cast to i16.
SetA(v, shown) ==
    /\ fault = "none"
    /\ ~running
    /\ Finish([Gui EXCEPT !.cpu.a = Wrap16(v)], shown,
              [op |-> "SetA", v |-> v, pre |-> Pre])

\* The D box.
SetD(v, shown) ==
    /\ fault = "none"
    /\ ~running
    /\ Finish([Gui EXCEPT !.cpu.d = Wrap16(v)], shown,
              [op |-> "SetD", v |-> v, pre |-> Pre])

\* The box of row n of the RAM table.
SetRam(n, v, shown) ==
    /\ fault = "none"
    /\ ~running
    /\ n < MAX_RAM
    /\ Finish([Gui EXCEPT !.cpu.ram = RamPut(@, n, Wrap16(v))], shown,
              [op |-> "SetRam", n |-> n, v |-> v, pre |-> Pre])

\* The Reset button of the RAM pane.
ResetRam(shown) ==
    /\ fault = "none"
    /\ ~running
    /\ Finish([Gui EXCEPT !.cpu = reset_ram(@)], shown,
              [op |-> "ResetRam", pre |-> Pre, address_table |-> address_table])

\* Whether the Breakpoints pane is drawn, and which breakpoint the loop visits
\* first, are inputs of a frame; they tell on it only when a breakpoint of bps
\* reads out of the RAM, and are fixed otherwise.
Choices(bps) == IF \E bp \in bps : BreakpointOutOfRam(bp) THEN BOOLEAN ELSE {TRUE}

Next ==
    \/ \E shown \in Choices(breakpoints) : Stop(shown)
    \/ \E src \in Programs, shown \in Choices(breakpoints) : Open(src, shown)
    \/ \E key \in KeyCodes, oob_first \in Choices(breakpoints),
          shown \in Choices(breakpoints) : Run(key, oob_first, shown)
    \/ \E key \in KeyCodes, shown \in Choices(breakpoints) : Step(key, shown)
    \/ \E shown \in Choices(breakpoints) : Reset(shown)
    \/ \E key \in KeyCodes, oob_first \in Choices(breakpoints),
          shown \in Choices(breakpoints) : Tick(key, oob_first, shown)
    \/ \E bp \in BreakpointChoices, key \in KeyCodes, oob_first \in Choices(breakpoints) :
           \E shown \in Choices(breakpoints \cup {bp}) :
               /\ Cardinality(breakpoints \cup {bp}) <= MaxBreakpoints
               /\ AddBreakpoint(bp, key, oob_first, shown)
    \/ \E bp \in BreakpointChoices, key \in KeyCodes, oob_first \in Choices(breakpoints) :
           RemoveBreakpoint(bp, key, oob_first)
    \/ \E v \in PcEdits, shown \in Choices(breakpoints) : SetPc(v, shown)
    \/ \E v \in AEdits, shown \in Choices(breakpoints) : SetA(v, shown)
    \/ \E v \in DEdits, shown \in Choices(breakpoints) : SetD(v, shown)
    \/ \E e \in RamEdits, shown \in Choices(breakpoints) : SetRam(e[1], e[2], shown)
    \/ \E shown \in Choices(breakpoints) : ResetRam(shown)

Spec == Init /\ [][Next]_vars

\* SpecControls: the buttons of the controls alone, Stop, Open, Run, Step and
\* Reset, and the frames of a run; no breakpoint is set and no box is edited.
NextControls ==
    \/ \E shown \in Choices(breakpoints) : Stop(shown)
    \/ \E src \in Programs, shown \in Choices(breakpoints) : Open(src, shown)
    \/ \E key \in KeyCodes, oob_first \in Choices(breakpoints),
          shown \in Choices(breakpoints) : Run(key, oob_first, shown)
    \/ \E key \in KeyCodes, shown \in Choices(breakpoints) : Step(key, shown)
    \/ \E shown \in Choices(breakpoints) : Reset(shown)
    \/ \E key \in KeyCodes, oob_first \in Choices(breakpoints),
          shown \in Choices(breakpoints) : Tick(key, oob_first, shown)

\* SpecBreakpoints: the sum program run under breakpoints that are added and
\* removed; the set grows to one breakpoint more than in Spec.
NextBreakpoints ==
    \/ \E shown \in Choices(breakpoints) : Stop(shown)
    \/ \E key \in KeyCodes, oob_first \in Choices(breakpoints),
          shown \in Choices(breakpoints) : Run(key, oob_first, shown)
    \/ \E shown \in Choices(breakpoints) : Reset(shown)
    \/ \E key \in KeyCodes, oob_first \in Choices(breakpoints),
          shown \in Choices(breakpoints) : Tick(key, oob_first, shown)
    \/ \E bp \in BreakpointChoices, key \in KeyCodes, oob_first \in Choices(breakpoints) :
           \E shown \in Choices(breakpoints \cup {bp}) :
               /\ Cardinality(breakpoints \cup {bp}) <= MaxBreakpoints + 1
               /\ AddBreakpoint(bp, key, oob_first, shown)
    \/ \E bp \in BreakpointChoices, key \in KeyCodes, oob_first \in Choices(breakpoints) :
           RemoveBreakpoint(bp, key, oob_first)

SpecBreakpoints == Started(ProgramSum) /\ [][NextBreakpoints]_vars

\* The key of a frame in SpecKeyboard: none, or the character A, whose code
\* get_keycode gives as 65.
PressedKeys == KeyCodes \cup {65}

\* SpecKeyboard: the program that reads the keyboard register, run and stepped
\* with a key that changes from frame to frame; the run is not stopped by hand.
NextKeyboard ==
    \/ \E key \in PressedKeys : Run(key, TRUE, TRUE)
    \/ \E key \in PressedKeys : Step(key, TRUE)
    \/ Reset(TRUE)
    \/ \E key \in PressedKeys : Tick(key, TRUE, TRUE)

SpecKeyboard == Started(ProgramKeyboard) /\ [][NextKeyboard]_vars

\* SpecKeyboardFair: SpecKeyboard with the event loop drawing frame after
\* frame: a run is not left without its next frame for ever.
SpecKeyboardFair ==
    SpecKeyboard /\ WF_vars(\E key \in PressedKeys : Tick(key, TRUE, TRUE))

\* The files SpecControls is started on: those of Spec, and two jumps over D=1
\* to a label declared later.
ControlPrograms == StartPrograms \cup {ProgramJump, ProgramSkip}

InitControls == \E src \in ControlPrograms : Started(src)

SpecControls == InitControls /\ [][NextControls]_vars

-----------------------------------------------------------------------------
(* Claims about interpret, checked under SpecInterp.                       *)

\* The relational test of each jump, as the claim words it.
C1_Test(jump, result) ==
    \/ jump = "JGT" /\ result > 0
    \/ jump = "JEQ" /\ result = 0
    \/ jump = "JGE" /\ result >= 0
    \/ jump = "JLT" /\ result < 0
    \/ jump = "JNE" /\ result # 0
    \/ jump = "JLE" /\ result <= 0
    \/ jump = "JMP"

\* C1: after a C instruction with a jump, pc is the A register as it is after the
\* destination store, read as a u16, when the ALU result passes the jump's test,
\* and pc + 1 otherwise.
C1_JumpToCurrentA ==
    (InterpretedC /\ last.instr.jump # "None") =>
        pc = IF C1_Test(last.instr.jump, LastAnswer) THEN AsU16(a) ELSE last.pre.pc + 1

\* C1 witness: a taken conditional jump of an instruction that has just overwritten
\* A with a negative value: pc is the new A as a u16, not the old A.
C1_Witness ==
    /\ InterpretedC
    /\ last.instr.jump = "JLT"
    /\ last.instr.dest = "AD"
    /\ a < 0
    /\ a # last.pre.a
    /\ pc = a + U16_MODULUS
    /\ pc # AsU16(last.pre.a)

\* The targets each Destination names.
C2_Named(dest) ==
    CASE dest = "None" -> {}
      [] dest = "A" -> {"A"}
      [] dest = "M" -> {"M"}
      [] dest = "D" -> {"D"}
      [] dest = "MD" -> {"M", "D"}
      [] dest = "AM" -> {"A", "M"}
      [] dest = "AD" -> {"A", "D"}
      [] dest = "AMD" -> {"A", "M", "D"}

\* C2: after a C instruction every target its dest names holds the result, with M
\* the RAM word at the address A held before the instruction; a register that is
\* not named and every other RAM word keep their values.
C2_DestFrame ==
    InterpretedC =>
        LET named == C2_Named(last.instr.dest)
            addr == last.pre.a
        IN  /\ a = IF "A" \in named THEN LastAnswer ELSE last.pre.a
            /\ d = IF "D" \in named THEN LastAnswer ELSE last.pre.d
            /\ "M" \in named => RamGet(ram, addr) = LastAnswer
            /\ "M" \notin named => ram = last.pre.ram
            /\ \A i \in (DOMAIN ram \cup DOMAIN last.pre.ram) \ {addr} :
                   RamGet(ram, i) = RamGet(last.pre.ram, i)

\* C2 witness: an AMD instruction whose result differs from the old A, D and
\* RAM[A], with another RAM word non-zero.
C2_Witness ==
    /\ InterpretedC
    /\ last.instr.dest = "AMD"
    /\ LastAnswer \notin {last.pre.a, last.pre.d, RamGet(last.pre.ram, last.pre.a)}
    /\ a = LastAnswer
    /\ d = LastAnswer
    /\ RamGet(ram, last.pre.a) = LastAnswer
    /\ RamGet(ram, 7) = 2

\* C3: an A instruction sets A to its dest and adds 1 to pc, leaving D and the RAM;
\* a Label or None instruction adds 1 to pc and leaves A, D and the RAM.
C3_AInstructionAndFiller ==
    /\ (last.op = "interpret" /\ last.instr.type = "A") =>
           /\ a = last.instr.dest
           /\ pc = last.pre.pc + 1
           /\ d = last.pre.d
           /\ ram = last.pre.ram
           /\ fault = "none"
    /\ (last.op = "interpret" /\ last.instr.type \in {"Label", "None"}) =>
           /\ pc = last.pre.pc + 1
           /\ a = last.pre.a
           /\ d = last.pre.d
           /\ ram = last.pre.ram
           /\ fault = "none"

\* C3 witness: an A instruction that changed A, over a non-empty RAM and a non-zero D.
C3_Witness ==
    /\ last.op = "interpret"
    /\ last.instr.type = "A"
    /\ a = I16_MAX
    /\ last.pre.a = -1
    /\ d = I16_MIN
    /\ ram # <<>>
    /\ pc = last.pre.pc + 1

\* The interpreted C instruction stored its result in D alone: D holds the ALU
\* result.
ResultInD == InterpretedC /\ last.instr.dest = "D"

\* The operands of the interpreted instruction: A, D and M = RAM[A] before it.
OperandA == last.pre.a

OperandD == last.pre.d

OperandM == RamGet(last.pre.ram, last.pre.a)

\* What the mnemonic of an arithmetic comp denotes over the integers, without a
\* word width; x >> 1 is the half of x rounded down.
Denoted(comp, ra, rd, m) ==
    CASE comp = "Zero" -> 0
      [] comp = "One" -> 1
      [] comp = "MinusOne" -> -1
      [] comp = "D" -> rd
      [] comp = "A" -> ra
      [] comp = "M" -> m
      [] comp = "NotD" -> (0 - rd) - 1
      [] comp = "NotA" -> (0 - ra) - 1
      [] comp = "NotM" -> (0 - m) - 1
      [] comp = "MinusD" -> 0 - rd
      [] comp = "MinusA" -> 0 - ra
      [] comp = "MinusM" -> 0 - m
      [] comp = "DPlusOne" -> rd + 1
      [] comp = "APlusOne" -> ra + 1
      [] comp = "MPlusOne" -> m + 1
      [] comp = "DMinusOne" -> rd - 1
      [] comp = "AMinusOne" -> ra - 1
      [] comp = "MMinusOne" -> m - 1
      [] comp = "DPlusA" -> rd + ra
      [] comp = "DMinusA" -> rd - ra
      [] comp = "AMinusD" -> ra - rd
      [] comp = "DPlusM" -> rd + m
      [] comp = "DMinusM" -> rd - m
      [] comp = "MMinusD" -> m - rd
      [] comp = "LeftShiftA" -> 2 * ra
      [] comp = "LeftShiftD" -> 2 * rd
      [] comp = "LeftShiftM" -> 2 * m
      [] comp = "RightShiftA" -> ra \div 2
      [] comp = "RightShiftD" -> rd \div 2
      [] comp = "RightShiftM" -> m \div 2

\* The operands of the bitwise comps of two operands.
BitwisePair(comp) ==
    IF comp \in {"DAndA", "DOrA"} THEN <<OperandD, OperandA>> ELSE <<OperandD, OperandM>>

\* The integer reduced modulo 2^16 into -32768..32767, by the definition of
\* two's complement.
Reduced(x) ==
    LET low == x % U16_MODULUS
    IN  IF low > I16_MAX THEN low - U16_MODULUS ELSE low

\* C17: no ALU operation faults on overflow, and its result is the integer
\* result of the operation the arm computes, reduced modulo 2^16 into the
\* signed range; D-1 and A-1 compute D+1 and A+1.  An AND and an OR are in the
\* range and add up to the wrapped sum of their operands.  D+A at 32767 and 1
\* is -32768, !D at 0 is -1, and -1 shifted left is -2.
C17_WrappingArithmetic ==
    ResultInD =>
        LET comp == last.instr.comp
            x == BitwisePair(comp)[1]
            y == BitwisePair(comp)[2]
        IN  /\ d \in I16_MIN..I16_MAX
            /\ comp = "DMinusOne" => d = Reduced(OperandD + 1)
            /\ comp = "AMinusOne" => d = Reduced(OperandA + 1)
            /\ comp \in {"DAndA", "DAndM"} =>
                   d + WOr(x, y) = x + y
            /\ comp \in {"DOrA", "DOrM"} => d + WAnd(x, y) = x + y
            /\ comp \notin {"DMinusOne", "AMinusOne", "DAndA", "DAndM", "DOrA", "DOrM"} =>
                   d = Reduced(Denoted(comp, OperandA, OperandD, OperandM))
            /\ (comp = "DPlusA" /\ OperandD = I16_MAX /\ OperandA = 1) => d = I16_MIN
            /\ (comp = "NotD" /\ OperandD = 0) => d = -1
            /\ (comp = "LeftShiftA" /\ OperandA = -1) => d = -2

\* C17 witness: D+A with D = 32767 and A = 1 has overflowed to -32768.
C17_Witness ==
    /\ ResultInD
    /\ last.instr.comp = "DPlusA"
    /\ OperandD = I16_MAX
    /\ OperandA = 1
    /\ d = I16_MIN

\* The operand of a right shift.
ShiftOperand ==
    CASE last.instr.comp = "RightShiftA" -> OperandA
      [] last.instr.comp = "RightShiftD" -> OperandD
      [] last.instr.comp = "RightShiftM" -> OperandM

\* C18: A>>, D>> and M>> shift the raw word logically: the result is the
\* operand read as an unsigned 16-bit number, halved; it is never negative.
C18_RightShiftIsLogical ==
    (ResultInD /\ last.instr.comp \in {"RightShiftA", "RightShiftD", "RightShiftM"}) =>
        /\ d = AsU16(ShiftOperand) \div 2
        /\ d >= 0

\* C18 fails: D>> of -2 is -1, the sign bit shifted in, and not 32767.
C18_SignExtended ==
    /\ ResultInD
    /\ last.instr.comp = "RightShiftD"
    /\ OperandD = -2
    /\ AsU16(OperandD) \div 2 = I16_MAX
    /\ d = -1

\* The right shift of each operand is the half rounded down: the shift is
\* arithmetic, and agrees with the logical one for operands that are not
\* negative.
C18_RightShiftIsArithmetic ==
    (ResultInD /\ last.instr.comp \in {"RightShiftA", "RightShiftD", "RightShiftM"}) =>
        /\ d = ShiftOperand \div 2
        /\ ShiftOperand >= 0 => d = AsU16(ShiftOperand) \div 2
        /\ ShiftOperand < 0 => d < 0

\* C19: D-1 leaves what D+1 leaves, D + 1 wrapped, and A-1 what A+1 leaves.
\* Every other arithmetic comp, M-1 among them, leaves what its mnemonic
\* denotes, wrapped; a right shift leaves the operand shifted by one bit,
\* whichever bit fills the top; an AND and an OR leave the bitwise AND and OR
\* of the two words.
C19_MinusOneAddsOne ==
    ResultInD =>
        LET comp == last.instr.comp
            denoted == Reduced(Denoted(comp, OperandA, OperandD, OperandM))
        IN  /\ comp = "DMinusOne" =>
                   /\ d = Reduced(Denoted("DPlusOne", OperandA, OperandD, OperandM))
                   /\ d # denoted
            /\ comp = "AMinusOne" =>
                   /\ d = Reduced(Denoted("APlusOne", OperandA, OperandD, OperandM))
                   /\ d # denoted
            /\ comp = "MMinusOne" => d = Reduced(OperandM - 1)
            /\ comp \in {"RightShiftA", "RightShiftD", "RightShiftM"} =>
                   d \in {denoted, AsU16(ShiftOperand) \div 2}
            /\ comp \in {"DAndA", "DAndM"} =>
                   d = FromU16(BitAnd(AsU16(BitwisePair(comp)[1]),
                                      AsU16(BitwisePair(comp)[2]), 16))
            /\ comp \in {"DOrA", "DOrM"} =>
                   d = FromU16(BitOr(AsU16(BitwisePair(comp)[1]),
                                     AsU16(BitwisePair(comp)[2]), 16))
            /\ comp \notin {"DMinusOne", "AMinusOne", "DAndA", "DAndM", "DOrA", "DOrM",
                             "RightShiftA", "RightShiftD", "RightShiftM"} =>
                   d = denoted

\* C19 witness: D-1 at D = 7 has left 8, and not 6.
C19_Witness ==
    /\ ResultInD
    /\ last.instr.comp = "DMinusOne"
    /\ OperandD = 7
    /\ d = 8

\* C26: a C instruction addresses the RAM with the A it began with.  The M
\* operand is RAM[old A]; with the destination AM or AMD the result is in
\* RAM[old A] and in A, the word at the new A is as it was, and the new A is
\* the target of the jump.
C26_OldAAddressesMemory ==
    InterpretedC =>
        LET old == last.pre.a
        IN  /\ (last.instr.comp = "M" /\ WritesA(last.instr.dest)) =>
                   a = RamGet(last.pre.ram, old)
            /\ last.instr.dest \in {"AM", "AMD"} =>
                   /\ a = LastAnswer
                   /\ RamGet(ram, old) = LastAnswer
                   /\ a # old => RamGet(ram, a) = RamGet(last.pre.ram, a)
                   /\ last.instr.jump = "JMP" => pc = AsU16(a)

\* C26 happens: AM=D+M;JMP with A = 1, D = -2, RAM[1] = 9 and RAM[7] = 2
\* leaves A = 7, RAM[1] = 7, RAM[7] = 2 and pc = 7.
C26_Witness ==
    /\ InterpretedC
    /\ last.instr = InstrC("AM", "DPlusM", "JMP")
    /\ last.pre.a = 1
    /\ last.pre.d = -2
    /\ RamGet(last.pre.ram, 1) = 9
    /\ a = 7
    /\ RamGet(ram, 1) = 7
    /\ RamGet(ram, 7) = 2
    /\ pc = 7

-----------------------------------------------------------------------------
(* Claims about the run controller, checked under Spec and SpecControls.   *)

\* The frames that execute a batch when they begin running.
BatchOps == {"Run", "Tick", "AddBreakpoint", "RemoveBreakpoint"}

\* The last frame went through the 'instructions loop: it began running, or
\* was the frame of the Run button.
RanBatch == last.op \in BatchOps /\ (last.op = "Run" \/ last.pre.running)

\* The last frame executed a batch that no panic ended.
Batched == RanBatch /\ fault = "none" /\ last.trace # <<>>

\* A breakpoint of the set the batch of the last frame checked holds in cpu.
Matches(cpu) == \E bp \in last.pre.breakpoints : BreakpointHolds(bp, cpu)

\* C4: in every state that executing a parsed program reaches, interpret runs
\* the instruction at pc to its end without a fault and leaves pc at pc + 1 or
\* at the jump target, whatever the A register holds when M is read or written.
C4_InterpretNeverFaults ==
    (last.op = "Step" /\ last.pre.pc < MAX_INSTRUCTIONS) =>
        /\ fault = "none"
        /\ pc = last.pre.pc + 1 \/ pc = AsU16(a)

\* C4 fails: a program has set A to -1 and its next instruction writes M; the
\* index of the RAM is out of bounds and interpret panics.
C4_FaultOnM ==
    /\ last.op = "Step"
    /\ last.pre.a = -1
    /\ last.pre.pc < MAX_INSTRUCTIONS
    /\ instructions[last.pre.pc] = InstrC("M", "D", "None")
    /\ fault = "ram_index"

\* C5: in a batch the breakpoints are checked after every instruction against
\* the state it left: no instruction but the last of the batch leaves a state in
\* which a breakpoint holds, every instruction is fetched where the one before
\* left pc, and when a breakpoint holds after the last instruction the run has
\* stopped with the registers, the RAM and pc as that instruction left them.
\* With PC(5) in the set, an instruction that leaves pc = 5 is the last one.
C5_BatchStopsAtFirstMatch ==
    Batched =>
        LET t == last.trace
            n == Len(t)
        IN  /\ t[1].fetch = last.pre.pc
            /\ \A i \in 1..(n - 1) : ~Matches(t[i].cpu) /\ t[i + 1].fetch = t[i].cpu.pc
            /\ Matches(t[n].cpu) =>
                   /\ ~running
                   /\ pc = t[n].cpu.pc
                   /\ a = t[n].cpu.a
                   /\ d = t[n].cpu.d
                   /\ ram = RamPut(t[n].cpu.ram, KBD_LOCATION, last.key)
            /\ BreakpointPC(5) \in last.pre.breakpoints =>
                   \A i \in 1..n : t[i].cpu.pc = 5 =>
                       i = n /\ pc = 5 /\ ~running /\ \A j \in 1..n : t[j].fetch # 5

\* C5 happens: a run from pc = 0 with PC(5) set stops in its second batch, which
\* began at pc = 4 with instructions left to run, with pc = 5.
C5_Witness ==
    /\ Batched
    /\ last.op = "Tick"
    /\ BreakpointPC(5) \in last.pre.breakpoints
    /\ last.pre.pc = INSTRUCTIONS_PER_REFRESH
    /\ Len(last.trace) < INSTRUCTIONS_PER_REFRESH
    /\ last.trace[Len(last.trace)].fetch = 4
    /\ pc = 5
    /\ ~running

\* C6: a run that has stopped has pc in the instruction array: when pc reaches
\* or exceeds MAX_INSTRUCTIONS in a batch, the run stops with pc clamped to
\* MAX_INSTRUCTIONS - 1.
C6_StoppedRunIsClamped ==
    (RanBatch /\ fault = "none" /\ ~running) => pc < MAX_INSTRUCTIONS

\* C6 fails: a batch has stopped on a breakpoint that held after the instruction
\* that took pc out of the instruction array, and pc is left there.
C6_StoppedUnclamped ==
    /\ Batched
    /\ Matches(last.trace[Len(last.trace)].cpu)
    /\ ~running
    /\ pc >= MAX_INSTRUCTIONS

\* C6, where the code does it: a batch that finds pc at or over
\* MAX_INSTRUCTIONS before a fetch stops the run with pc = MAX_INSTRUCTIONS - 1
\* and never fetches at that pc.
C6_ClampedAtLoopCheck ==
    (RanBatch /\ fault = "none" /\ last.pre.pc >= MAX_INSTRUCTIONS) =>
            /\ last.trace = <<>>
            /\ ~running
            /\ pc = MAX_INSTRUCTIONS - 1

\* C7: no instruction is fetched with pc at or over MAX_INSTRUCTIONS, by a batch
\* or by Step.
C7_FetchInRange ==
    /\ fault # "rom_index"
    /\ last.op = "Step" => last.pre.pc < MAX_INSTRUCTIONS
    /\ last.op \in BatchOps =>
           \A i \in 1..Len(last.trace) : last.trace[i].fetch < MAX_INSTRUCTIONS

\* C7 fails: Step with pc at MAX_INSTRUCTIONS indexes the instruction array out
\* of bounds.
C7_StepOutOfRange ==
    /\ last.op = "Step"
    /\ last.pre.pc >= MAX_INSTRUCTIONS
    /\ ~last.pre.running
    /\ fault = "rom_index"

\* C7 in batches only: every fetch of a batch has pc under MAX_INSTRUCTIONS.
C7_BatchFetchInRange ==
    last.op \in BatchOps =>
        \A i \in 1..Len(last.trace) : last.trace[i].fetch < MAX_INSTRUCTIONS

\* The GUI as the frame of last found it, for a frame that recorded the program.
GuiBefore ==
    [Gui EXCEPT !.cpu = [a |-> last.pre.a, d |-> last.pre.d, pc |-> last.pre.pc,
                         ram |-> last.pre.ram, fault |-> "none"],
                !.breakpoints = last.pre.breakpoints,
                !.running = last.pre.running,
                !.instructions = last.program.instructions,
                !.num_labels = last.program.num_labels]

\* The CPU a Step leaves from the GUI value g.
StepLeaves(g) == StepOnce(g, 0).cpu

\* The CPU, the running flag and the instructions executed that the first batch
\* of a Run leaves from the GUI value g.
RunLeaves(g) ==
    LET r == RunBatch([g EXCEPT !.running = TRUE], 0, TRUE)
    IN  <<r.gui.cpu, r.gui.running, r.trace>>

\* C13: an Open whose parse returns a line error leaves the instruction array,
\* the label count, A, D, pc and the RAM as they were, and a Step or a Run
\* after it does what it would have done before it.
C13_FailedLoadKeepsProgram ==
    (last.op = "Open" /\ fault = "none" /\ program_error # NoProgramError) =>
        /\ instructions = last.program.instructions
        /\ num_labels = last.program.num_labels
        /\ <<a, d, pc, ram, running>> =
               <<last.pre.a, last.pre.d, last.pre.pc, last.pre.ram, last.pre.running>>
        /\ StepLeaves(Gui) = StepLeaves(GuiBefore)
        /\ RunLeaves(Gui) = RunLeaves(GuiBefore)

\* C13 witness: the sum program has run to its end, RAM[0] = 5; the file opened
\* then has the line D=D+1;JGT, the error is recorded and the sum program is
\* still installed.
C13_Witness ==
    /\ last.op = "Open"
    /\ last.src = ProgramInvalid
    /\ fault = "none"
    /\ program_error = [line_number |-> 0, text |-> ProgramInvalid[1]]
    /\ instructions[0] = InstrA(2)
    /\ instructions[5] = InstrC("M", "D", "None")
    /\ pc = last.pre.pc
    /\ pc > 5
    /\ RamGet(ram, 0) = 5

\* The names a file writes: its label names and its operands.
NamesOf(src) ==
    LET lines == clear_whitespace(FileLines(src))
    IN  {LabelName(lines[i]) : i \in {k \in Slots : IsLabelLine(lines[k])}}
        \cup {Operand(lines[i]) : i \in {k \in Slots : StartsWith(lines[k], "@")}}

\* C14: after a file is opened and parsed, the symbol table is the one parse
\* makes of the file on a new seeded table: no name of the program before is
\* bound unless the file writes it, and the variables are counted from 16.
C14_TableReplaced ==
    (last.op = "Open" /\ fault = "none" /\ Len(last.src) <= MAX_INSTRUCTIONS) =>
        /\ address_table = parse_cached(FileLines(last.src), NewSymbolTable).address_table
        /\ DOMAIN address_table.table = DOMAIN SeededTable \cup NamesOf(last.src)
        /\ address_table.current_variable =
               FIRST_VARIABLE
               + Cardinality({n \in NamesOf(last.src) :
                                 address_table.table[n] >= FIRST_VARIABLE /\ ~ParseU16(n).ok})

\* C14 witness: the program before bound the label LOOP and the variable x at
\* 16; the file opened has the variable i, which is bound at 16, and LOOP and x
\* are bound no more.
C14_Witness ==
    /\ last.op = "Open"
    /\ fault = "none"
    /\ last.src = ProgramVariable
    /\ {<<"L", "O", "O", "P">>, <<"x">>} \subseteq DOMAIN last.program.address_table.table
    /\ last.program.address_table.table[<<"L", "O", "O", "P">>] = 0
    /\ last.program.address_table.table[<<"x">>] = FIRST_VARIABLE
    /\ <<"L", "O", "O", "P">> \notin DOMAIN address_table.table
    /\ <<"x">> \notin DOMAIN address_table.table
    /\ address_table.table[<<"i">>] = FIRST_VARIABLE
    /\ address_table.current_variable = FIRST_VARIABLE + 1
    /\ instructions[0] = InstrA(FIRST_VARIABLE)

\* The GUI value with the program of the file opened and everything else as
\* the frame of the Open button found it.
GuiBeforeWithFile ==
    [GuiBefore EXCEPT
        !.instructions = parse_cached(FileLines(last.src), NewSymbolTable).result.instructions]

\* C29: an Open whose parse succeeds installs the program of the file and
\* leaves A, D, pc, the RAM, the breakpoints and the running flag as they
\* were: a Step or a Run after it executes the new program from the old pc on
\* the old registers and memory.
C29_LoadKeepsMachineState ==
    (last.op = "Open" /\ fault = "none" /\ program_error = NoProgramError
        /\ Len(last.src) <= MAX_INSTRUCTIONS) =>
        /\ instructions = GuiBeforeWithFile.instructions
        /\ num_labels = 0
        /\ <<a, d, pc, ram, breakpoints, running>> =
               <<last.pre.a, last.pre.d, last.pre.pc, last.pre.ram, last.pre.breakpoints,
                 last.pre.running>>
        /\ StepLeaves(Gui) = StepLeaves(GuiBeforeWithFile)
        /\ RunLeaves(Gui) = RunLeaves(GuiBeforeWithFile)

\* C29 happens: the sum program has executed @2 and a breakpoint is set; the
\* file @i, D=A is opened, and a Step then executes its D=A at pc = 1 with
\* A = 2.
C29_Witness ==
    /\ last.op = "Open"
    /\ fault = "none"
    /\ program_error = NoProgramError
    /\ last.src = ProgramVariable
    /\ last.program.instructions[1] = InstrC("D", "A", "None")
    /\ last.program.instructions[0] = InstrA(2)
    /\ instructions[0] = InstrA(FIRST_VARIABLE)
    /\ pc = 1
    /\ a = 2
    /\ d = 0
    /\ breakpoints # {}
    /\ StepLeaves(Gui).d = 2
    /\ StepLeaves(Gui).pc = 2

\* A file is opened with the RAM written by the program before.
C29_MemoryKept ==
    /\ last.op = "Open"
    /\ fault = "none"
    /\ program_error = NoProgramError
    /\ last.src = ProgramVariable
    /\ RamGet(ram, 0) = 5
    /\ d = 5
    /\ pc > 5

\* The emulator was started on the file src, and since then interpret has been
\* called n times, by n Steps, and nothing else has been done.
CalledFromStart(src, n) ==
    /\ fault = "none"
    /\ instructions = parse_cached(FileLines(src), NewSymbolTable).result.instructions
    /\ IF n = 0 THEN last.op = "init" ELSE last.op = "Step" /\ last.calls = n

\* C15 as stated: three interpret calls on the sum program leave RAM[0] = 5 and
\* pc = 3.
C15_SumAfterThree ==
    CalledFromStart(ProgramSum, 3) => RamGet(ram, 0) = 5 /\ pc = 3

\* C15: each interpret call executes one line of the sum program.  Three calls
\* leave pc = 3, A = 3, D = 2 and RAM[0] still 0; six calls leave RAM[0] = 5 and
\* pc = 6.
C15_SumAfterSix ==
    /\ \A n \in 0..6 : CalledFromStart(ProgramSum, n) => pc = n
    /\ CalledFromStart(ProgramSum, 3) => a = 3 /\ d = 2 /\ RamGet(ram, 0) = 0
    /\ CalledFromStart(ProgramSum, 5) => a = 0 /\ d = 5 /\ RamGet(ram, 0) = 0
    /\ CalledFromStart(ProgramSum, 6) => a = 0 /\ d = 5 /\ RamGet(ram, 0) = 5

\* C15 witness: the sixth call has stored 5 in RAM[0].
C15_Witness ==
    /\ CalledFromStart(ProgramSum, 6)
    /\ last.pre.pc = 5
    /\ RamGet(last.pre.ram, 0) = 0
    /\ RamGet(ram, 0) = 5
    /\ pc = 6

\* The instruction array of ProgramSkip: @3, 0;JMP, D=1, D=-1, the label END
\* bound to 3.
SkipInstructions == parse_cached(FileLines(ProgramSkip), NewSymbolTable).result.instructions

\* The slots whose instruction the frame of last executed.
Executed ==
    IF last.op = "Step" THEN {last.pre.pc}
    ELSE IF last.op \in {"Run", "Tick"}
    THEN {last.trace[i].fetch : i \in 1..Len(last.trace)}
    ELSE {}

\* C16 as stated: the program @END, 0;JMP, D=1, (END), D=2 is parsed into a
\* program whose jump lands on D=2, and the emulator starts on it.
C16_JumpProgramRuns ==
    (last.op = "init" /\ last.src = ProgramJump) =>
        /\ fault = "none"
        /\ instructions[1] = InstrC("None", "Zero", "JMP")
        /\ instructions[3].type = "C" /\ instructions[3].dest = "D"

\* C16: with D=-1 for D=2, whose comp is no mnemonic, the program is parsed
\* with END bound to 3, the slot of D=-1.  In every state of its execution D is
\* not 1 and the slot of D=1 is never executed; the jump leaves pc at 3, and the
\* instruction there leaves D = -1.
C16_JumpSkipsAssignment ==
    /\ (last.op = "init" /\ last.src = ProgramSkip) =>
           /\ fault = "none"
           /\ address_table.table[<<"E", "N", "D">>] = 3
           /\ instructions = SkipInstructions
           /\ instructions[2] = InstrC("D", "One", "None")
           /\ instructions[3] = InstrC("D", "MinusOne", "None")
    /\ instructions = SkipInstructions => d # 1 /\ 2 \notin Executed
    /\ CalledFromStart(ProgramSkip, 2) => pc = 3 /\ d = 0
    /\ CalledFromStart(ProgramSkip, 3) => pc = 4 /\ d = -1

\* C16 witness: the third call, after the jump from slot 1 to slot 3, has set D
\* to -1.
C16_Witness ==
    /\ CalledFromStart(ProgramSkip, 3)
    /\ last.pre.pc = 3
    /\ last.pre.a = 3
    /\ last.pre.d = 0
    /\ d = -1

-----------------------------------------------------------------------------
(* Claims about parse, checked under SpecParse.                            *)

\* parse has returned (Ok or Err).
Parsed == last.op = "parse" /\ fault = "none"

\* The source after whitespace and comment stripping.
Cleaned == clear_whitespace(LineArray(last.source))

\* The number of label lines before line i of the stripped source.
LabelsBefore(i) == Cardinality({j \in 0..(i - 1) : IsLabelLine(Cleaned[j])})

\* Line i of the stripped source is a real instruction.
IsRealLine(i) == Cleaned[i] # <<>> /\ ~IsLabelLine(Cleaned[i])

\* The names the program declares as labels.
LabelNames == {LabelName(Cleaned[i]) : i \in {j \in Slots : IsLabelLine(Cleaned[j])}}

\* Label line i is the last declaration of its name.
LastDeclaration(i) ==
    \A j \in Slots :
        (j > i /\ IsLabelLine(Cleaned[j])) => LabelName(Cleaned[j]) # LabelName(Cleaned[i])

\* The binding of label line i: the output index of the next real instruction.
LabelLineBound(i) ==
    LET name == LabelName(Cleaned[i])
    IN  /\ name \in DOMAIN address_table.table
        /\ address_table.table[name] = i - LabelsBefore(i)
        /\ address_table.table[name] = Cardinality({j \in 0..(i - 1) : IsRealLine(j)})
        /\ last.kind = "Ok" =>
               (instructions[address_table.table[name]] # InstrNone
                   <=> \E j \in Slots : j > i /\ IsRealLine(j))

LabelIndex(name) ==
    LET i == CHOOSE j \in Slots :
                 /\ IsLabelLine(Cleaned[j])
                 /\ LabelName(Cleaned[j]) = name
                 /\ LastDeclaration(j)
    IN  i - LabelsBefore(i)

\* The operands of the @ lines.
Operands == {Operand(Cleaned[i]) : i \in {j \in Slots : StartsWith(Cleaned[j], "@")}}

\* The operands that are allocated as variables, with IsNumeric telling a literal.
Variables(IsNumeric(_)) ==
    {v \in Operands : v \notin DOMAIN SeededTable /\ v \notin LabelNames /\ ~IsNumeric(v)}

ParsesAsU16(name) == ParseU16(name).ok

\* C9: an @NAME whose NAME is a label of the program, declared before or after the
\* use, becomes the A instruction of the label's index; it is not allocated as a
\* variable and the cursor counts only the variables.
C9_LabelsBeforeOperands ==
    Parsed =>
        /\ \A i \in Slots :
               (StartsWith(Cleaned[i], "@") /\ Operand(Cleaned[i]) \in LabelNames) =>
                   LET name == Operand(Cleaned[i])
                   IN  /\ address_table.table[name] = LabelIndex(name)
                       /\ last.kind = "Ok" =>
                              instructions[i - LabelsBefore(i)] = InstrA(LabelIndex(name))
        /\ address_table.current_variable
               = FIRST_VARIABLE + Cardinality(Variables(ParsesAsU16))

\* C9 witness: a use of END before its declaration and a variable: END resolves to
\* the label's index and the variable takes the first variable address.
C9_Witness ==
    /\ Parsed
    /\ last.source = <<L_At_END, L_Label_END, L_At_i>>
    /\ instructions[0] = InstrA(1)
    /\ instructions[1] = InstrA(FIRST_VARIABLE)
    /\ address_table.current_variable = FIRST_VARIABLE + 1

\* The stripped line where the operand v is first used.
FirstUse(v) ==
    CHOOSE i \in Slots :
        /\ StartsWith(Cleaned[i], "@") /\ Operand(Cleaned[i]) = v
        /\ \A j \in 0..(i - 1) : ~(StartsWith(Cleaned[j], "@") /\ Operand(Cleaned[j]) = v)

\* Variable allocation on a fresh table, with IsNumeric telling a literal from a
\* name and Value giving a literal's value: the variables take 16, 17, ... in order
\* of first appearance, a literal is bound to its value and leaves the cursor, and
\* every use of an operand resolves to its one binding.
Allocation(IsNumeric(_), Value(_)) ==
    LET variables == Variables(IsNumeric)
    IN  /\ \A v \in variables :
               address_table.table[v] = FIRST_VARIABLE
                   + Cardinality({w \in variables : FirstUse(w) < FirstUse(v)})
        /\ \A n \in Operands :
               (IsNumeric(n) /\ n \notin DOMAIN SeededTable /\ n \notin LabelNames) =>
                   address_table.table[n] = Value(n)
        /\ address_table.current_variable = FIRST_VARIABLE + Cardinality(variables)
        /\ last.kind = "Ok" =>
               \A i \in Slots : StartsWith(Cleaned[i], "@") =>
                   instructions[i - LabelsBefore(i)]
                       = InstrA(address_table.table[Operand(Cleaned[i])])

U16Value(name) == ParseU16(name).value

\* The value of a string of digits of any length that TLC's integers hold.
DecimalValue(name) == DigitsValue(name, 0, 999999999)

\* C10 as claimed: a purely numeric operand, that is a string of digits, is bound
\* to its literal value and is not allocated.
C10_DigitsAreLiterals == Parsed => Allocation(AllDigits, DecimalValue)

\* C10 amended: an operand that parses as an unsigned 16-bit integer (at most
\* 65535) is bound to its value and leaves the cursor; every other operand that is
\* neither pre-seeded nor a label is a variable, allocated from 16 in order of first
\* appearance, and every use of it resolves to the same address.
C10_VariableAllocation == Parsed => Allocation(ParsesAsU16, U16Value)

\* C10 fails: the operand 70000, all digits, is allocated as a variable at 16
\* and advances the cursor.
C10_DigitsAllocated ==
    /\ Parsed
    /\ \E i \in 1..Len(last.source) : last.source[i] = L_At_70000
    /\ address_table.table[<<"7", "0", "0", "0", "0">>] = FIRST_VARIABLE
    /\ address_table.current_variable > FIRST_VARIABLE

\* C10 witness: a variable, the literal 16 and a second variable: the variables
\* take 16 and 17 and the literal is bound to 16 itself.
C10_Witness ==
    /\ Parsed
    /\ last.source = <<L_At_i, L_At_16, L_At_j>>
    /\ address_table.table[<<"i">>] = FIRST_VARIABLE
    /\ address_table.table[<<"1", "6">>] = 16
    /\ address_table.table[<<"j">>] = FIRST_VARIABLE + 1
    /\ address_table.current_variable = FIRST_VARIABLE + 2
    /\ instructions[2] = InstrA(FIRST_VARIABLE + 1)

\* The lines of the stripped source lines that are real instructions.
RealLines(lines) == {i \in Slots : lines[i] # <<>> /\ ~IsLabelLine(lines[i])}

\* The instruction that line denotes at index i of the stripped source.
DecodedLine(line, i) ==
    IF StartsWith(line, "@")
    THEN A_new(U16ToString(address_table.table[Operand(line)])).value
    ELSE DecodeC(line, i, address_table.table).value

\* C23: the array that a successful parse returns has no Label entry; the k-th
\* line of the stripped source that is not a label, counted from 0, is decoded
\* into slot k, and every slot from the number of such lines on is None.
C23_LabelsTakeNoSlot ==
    (Parsed /\ last.kind = "Ok") =>
        \A lines \in {Cleaned} :
            \A real \in {RealLines(lines)} :
                /\ \A k \in Slots : instructions[k].type # "Label"
                /\ \A i \in real :
                       instructions[Cardinality({j \in real : j < i})]
                           = DecodedLine(lines[i], i)
                /\ \A k \in Slots : k >= Cardinality(real) => instructions[k] = InstrNone

\* C23 happens: a label line stands between two instructions, and the second
\* is decoded into slot 1.
C23_Witness ==
    /\ Parsed
    /\ last.kind = "Ok"
    /\ last.source = <<L_D_eq_A, L_Label_END, L_0_JMP>>
    /\ instructions[0] = InstrC("D", "A", "None")
    /\ instructions[1] = InstrC("None", "Zero", "JMP")
    /\ instructions[2] = InstrNone

\* Label line i is the first declaration of its name.
FirstDeclaration(i) ==
    \A j \in 0..(i - 1) : IsLabelLine(Cleaned[j]) => LabelName(Cleaned[j]) # LabelName(Cleaned[i])

\* C24: a name keeps through the parse the address it was first bound to: a
\* pre-seeded symbol keeps its seeded address, and a label keeps the address
\* its first declaration gave it, in programs that declare a label twice too.
C24_BindingsNeverChange ==
    Parsed =>
        /\ \A name \in DOMAIN SeededTable :
               /\ name \in DOMAIN address_table.table
               /\ address_table.table[name] = SeededTable[name]
        /\ \A i \in Slots :
               (IsLabelLine(Cleaned[i]) /\ FirstDeclaration(i)
                   /\ LabelName(Cleaned[i]) \notin DOMAIN SeededTable) =>
                   address_table.table[LabelName(Cleaned[i])] = i - LabelsBefore(i)

\* C24 fails: END is declared before and after an instruction; the first
\* declaration binds it to 0 and the second binds it again, to 1.
C24_LabelRebound ==
    /\ Parsed
    /\ last.source = <<L_Label_END, L_D_eq_A, L_Label_END>>
    /\ address_table.table[<<"E", "N", "D">>] = 1

-----------------------------------------------------------------------------
(* Claims about the breakpoint set, checked under SpecBreakpoints.         *)

\* The last frame ran a batch right after the frame that removed a breakpoint.
RanAfterRemoval == RanBatch /\ last.op \in {"Run", "Tick"} /\ last.removed # {}

\* The batch of the last frame ended at the pc bound: the CPU it ended on had
\* pc at or above MAX_INSTRUCTIONS and pc was clamped.
EndedOnOverflow ==
    /\ pc = MAX_INSTRUCTIONS - 1
    /\ IF last.trace = <<>> THEN last.pre.pc >= MAX_INSTRUCTIONS
       ELSE last.trace[Len(last.trace)].cpu.pc >= MAX_INSTRUCTIONS

\* C20: the breakpoints are a set under equality of values. Adding a
\* breakpoint that is in the set leaves the set as it was, and adding another
\* adds that one; removing a breakpoint takes that element out and keeps every
\* other; the batch of the frame after a removal checks the set without the
\* removed breakpoint: when it stops, a breakpoint that remained holds in the
\* state it stopped in or pc had reached MAX_INSTRUCTIONS, and it ran on through
\* every state before the last in which only the removed breakpoint holds.
C20_BreakpointsAreASet ==
    /\ (last.op = "AddBreakpoint" /\ fault = "none") =>
           /\ breakpoints = last.pre.breakpoints \cup {last.bp}
           /\ last.bp \in last.pre.breakpoints => breakpoints = last.pre.breakpoints
    /\ (last.op = "RemoveBreakpoint" /\ fault = "none") =>
           /\ last.bp \notin breakpoints
           /\ \A other \in last.pre.breakpoints : other # last.bp => other \in breakpoints
           /\ breakpoints \subseteq last.pre.breakpoints
    /\ (RanAfterRemoval /\ fault = "none") =>
           LET t == last.trace
               n == Len(t)
           IN  /\ last.removed \cap last.pre.breakpoints = {}
               /\ breakpoints = last.pre.breakpoints
               /\ ~running => (n > 0 /\ Matches(t[n].cpu)) \/ EndedOnOverflow
               /\ \A i \in 1..(n - 1) : ~Matches(t[i].cpu)

\* C20 happens: D(2) was removed from {PC(5), D(2)} and the run that follows
\* passes the state with D = 2 and goes on with the rest of its batch.
C20_Witness ==
    /\ RanAfterRemoval
    /\ fault = "none"
    /\ last.removed = {BreakpointD(2)}
    /\ last.pre.breakpoints = {BreakpointPC(5)}
    /\ Len(last.trace) = INSTRUCTIONS_PER_REFRESH
    /\ \E i \in 1..(Len(last.trace) - 1) : last.trace[i].cpu.d = 2
    /\ running

\* A breakpoint of the set is added again and the set stays a set of two.
C20_AddedTwice ==
    /\ last.op = "AddBreakpoint"
    /\ fault = "none"
    /\ last.bp \in last.pre.breakpoints
    /\ Cardinality(last.pre.breakpoints) = 2
    /\ breakpoints = last.pre.breakpoints

\* One of two breakpoints is removed and the other stays.
C20_RemovedOneOfTwo ==
    /\ last.op = "RemoveBreakpoint"
    /\ fault = "none"
    /\ last.pre.breakpoints = {BreakpointPC(5), BreakpointD(2)}
    /\ last.bp = BreakpointPC(5)
    /\ breakpoints = {BreakpointD(2)}

\* After PC(5) is removed the run stops on the breakpoint that remained, D(2).
C20_StopsOnRemaining ==
    /\ RanAfterRemoval
    /\ fault = "none"
    /\ last.removed = {BreakpointPC(5)}
    /\ last.pre.breakpoints = {BreakpointD(2)}
    /\ ~running
    /\ d = 2

-----------------------------------------------------------------------------
(* Claims about the keyboard register, checked under SpecKeyboard.         *)

\* The CPU that instruction i of the batch of the last frame began on.
BeforeInstruction(i) == IF i = 1 THEN last.pre ELSE last.trace[i - 1].cpu

\* Instruction i of the batch is D=M with A at the keyboard register.
ReadsKeyboard(i) ==
    /\ instructions[last.trace[i].fetch] = InstrC("D", "M", "None")
    /\ BeforeInstruction(i).a = KBD_LOCATION

\* C21: the keyboard register holds the key of the frame before the first
\* instruction of the frame's batch: every instruction of the batch that reads
\* the keyboard register reads the code of the key of that frame.
C21_BatchObservesKey ==
    Batched =>
        \A i \in 1..Len(last.trace) : ReadsKeyboard(i) => last.trace[i].cpu.d = last.key

\* C21 fails: the Run button is pressed with the key A down after frames
\* without a key, and D=M reads 0; the register holds 65 when the frame ends.
C21_StaleKey ==
    /\ Batched
    /\ last.op = "Run"
    /\ last.key = 65
    /\ last.pre.pc = 0
    /\ Len(last.trace) = INSTRUCTIONS_PER_REFRESH
    /\ ReadsKeyboard(2)
    /\ last.trace[2].cpu.d = 0
    /\ RamGet(ram, 0) = 0
    /\ RamGet(ram, KBD_LOCATION) = 65

\* What the code does: the register is written after the batch, and the
\* instructions of the batch read what the frame before left in it.
C21_KeyWrittenAfterBatch ==
    Batched =>
        /\ RamGet(ram, KBD_LOCATION) = last.key
        /\ \A i \in 1..Len(last.trace) :
               ReadsKeyboard(i) =>
                   last.trace[i].cpu.d = RamGet(last.pre.ram, KBD_LOCATION)

-----------------------------------------------------------------------------
(* Claims about the two resets, checked under Spec.                        *)

\* C22: the frame of the Reset button of the RAM pane leaves every word of the
\* RAM 0 and A, D, pc, the breakpoints and the symbol table as they were; the
\* frame of the Reset button of the controls leaves pc = 0 and the RAM, A, D
\* and the breakpoints as they were.
C22_ResetsAreIndependent ==
    /\ (last.op = "ResetRam" /\ fault = "none") =>
           /\ \A n \in DOMAIN last.pre.ram \cup {0, KBD_LOCATION} : RamGet(ram, n) = 0
           /\ ram = <<>>
           /\ <<a, d, pc, breakpoints>>
                  = <<last.pre.a, last.pre.d, last.pre.pc, last.pre.breakpoints>>
           /\ address_table = last.address_table
    /\ (last.op = "Reset" /\ fault = "none") =>
           /\ pc = 0
           /\ <<ram, a, d, breakpoints>>
                  = <<last.pre.ram, last.pre.a, last.pre.d, last.pre.breakpoints>>

\* C22 happens: the RAM is reset with words set, A, D and pc not 0, a
\* breakpoint set and a variable in the symbol table.
C22_Witness ==
    /\ last.op = "ResetRam"
    /\ fault = "none"
    /\ last.pre.ram # <<>>
    /\ ram = <<>>
    /\ a # 0
    /\ d # 0
    /\ pc # 0
    /\ breakpoints # {}
    /\ DOMAIN address_table.table # DOMAIN SeededTable

\* The run is reset with words of the RAM set and A and D not 0.
C22_RunReset ==
    /\ last.op = "Reset"
    /\ fault = "none"
    /\ last.pre.pc = 6
    /\ pc = 0
    /\ RamGet(ram, 0) = 5
    /\ a # 0 \/ d # 0
    /\ breakpoints # {}

-----------------------------------------------------------------------------
(* Claims about the batch of a running frame, checked under Spec and      *)
(* SpecBreakpoints.                                                        *)

\* The CPU that the last instruction of the batch left; the CPU the frame
\* began on when the batch executed nothing.
BatchEnd == IF last.trace = <<>> THEN last.pre ELSE last.trace[Len(last.trace)].cpu

\* C25: a running frame executes at most INSTRUCTIONS_PER_REFRESH
\* instructions, and the breakpoints and the bound of pc are checked after
\* every one of them, the last included: a frame that ends still running has
\* executed INSTRUCTIONS_PER_REFRESH instructions, no breakpoint holds in the
\* state it ends in, and pc is below MAX_INSTRUCTIONS.
C25_CheckedAfterEveryInstruction ==
    (RanBatch /\ fault = "none") =>
        /\ Len(last.trace) <= INSTRUCTIONS_PER_REFRESH
        /\ running =>
               /\ Len(last.trace) = INSTRUCTIONS_PER_REFRESH
               /\ ~Matches(BatchEnd)
               /\ pc < MAX_INSTRUCTIONS

\* C25 fails: the last instruction of a full batch leaves pc at
\* MAX_INSTRUCTIONS, and the frame ends still running with pc out of bounds.
C25_RunningPastBound ==
    /\ RanBatch
    /\ fault = "none"
    /\ Len(last.trace) = INSTRUCTIONS_PER_REFRESH
    /\ BatchEnd.pc = MAX_INSTRUCTIONS
    /\ pc = MAX_INSTRUCTIONS
    /\ running

\* What the code does: the bound of pc is checked before every instruction and
\* the breakpoints after every instruction.
C25_BoundCheckedBeforeEach ==
    (RanBatch /\ fault = "none") =>
        /\ Len(last.trace) <= INSTRUCTIONS_PER_REFRESH
        /\ \A i \in 1..Len(last.trace) : last.trace[i].fetch < MAX_INSTRUCTIONS
        /\ \A i \in 1..(Len(last.trace) - 1) :
               ~Matches(last.trace[i].cpu) /\ last.trace[i].cpu.pc < MAX_INSTRUCTIONS
        /\ running => Len(last.trace) = INSTRUCTIONS_PER_REFRESH /\ ~Matches(BatchEnd)
        /\ ~running => (last.trace # <<>> /\ Matches(BatchEnd)) \/ EndedOnOverflow

\* C27: a running frame that begins with pc below MAX_INSTRUCTIONS executes
\* the instruction at pc before it looks at a breakpoint: a breakpoint that
\* holds when the frame begins does not stop it, and the batch ends after its
\* first instruction only when a breakpoint holds in the state that
\* instruction left or pc has left the array.
C27_FirstInstructionRuns ==
    (RanBatch /\ fault = "none" /\ last.pre.pc < MAX_INSTRUCTIONS) =>
        /\ last.trace # <<>>
        /\ last.trace[1].fetch = last.pre.pc
        /\ Len(last.trace) = 1 =>
               \/ Matches(last.trace[1].cpu)
               \/ last.trace[1].cpu.pc >= MAX_INSTRUCTIONS

\* C27 happens: Run is pressed with PC(5) set and pc = 5; the instruction at 5
\* is executed and the batch goes on.
C27_Witness ==
    /\ RanBatch
    /\ fault = "none"
    /\ last.op = "Run"
    /\ last.pre.breakpoints = {BreakpointPC(5)}
    /\ last.pre.pc = 5
    /\ Len(last.trace) > 1
    /\ last.trace[1].fetch = 5
    /\ last.trace[1].cpu.pc = 6

\* Run is pressed with D(2) set and D = 2; the instruction at pc leaves D = 2
\* and the batch ends after it.
C27_HoldsAfterFirst ==
    /\ RanBatch
    /\ fault = "none"
    /\ last.op = "Run"
    /\ last.pre.breakpoints = {BreakpointD(2)}
    /\ last.pre.d = 2
    /\ Len(last.trace) = 1
    /\ last.trace[1].cpu.pc = last.pre.pc + 1
    /\ ~running

\* The batch of the last frame ran to its end: it executed
\* INSTRUCTIONS_PER_REFRESH instructions, or stopped at the bound of pc or on
\* a breakpoint that holds.
BatchComplete ==
    \/ Len(last.trace) = INSTRUCTIONS_PER_REFRESH
    \/ BatchEnd.pc >= MAX_INSTRUCTIONS
    \/ Matches(BatchEnd)

\* C30: the loop over the breakpoints after an instruction does not fault,
\* whatever breakpoints were added: when every instruction of a batch ran
\* without a fault, the batch runs to its end.
C30_BreakpointCheckNeverFaults ==
    (RanBatch /\ last.trace # <<>> /\ BatchEnd.fault = "none") => BatchComplete

\* C30 fails: RAM(30000, 0) is in the set when Run is pressed; the first
\* instruction runs, and the loop over the breakpoints indexes the RAM at
\* 30000 and panics.
C30_CheckPanics ==
    /\ RanBatch
    /\ last.op = "Run"
    /\ last.pre.breakpoints = {BreakpointRAM(30000, 0)}
    /\ Len(last.trace) = 1
    /\ BatchEnd.fault = "none"
    /\ BatchEnd.pc = last.pre.pc + 1
    /\ ~BatchComplete
    /\ fault = "ram_index"

\* What the code does: a batch that executes an instruction with a breakpoint
\* on a RAM address of MAX_RAM or more in the set panics, unless a breakpoint
\* that holds is visited first.
C30_OutOfRamPanics ==
    (RanBatch /\ last.trace # <<>> /\ BatchEnd.fault = "none"
        /\ \E bp \in last.pre.breakpoints : BreakpointOutOfRam(bp)) =>
        \/ fault = "ram_index"
        \/ Matches(BatchEnd)

-----------------------------------------------------------------------------
(* Claims about the end of a run, checked under SpecKeyboardFair.          *)

\* C28: a run of a program without jumps, with no breakpoint set, stops by
\* itself.  Every instruction of a batch leaves pc one above its own address;
\* the run stops only when pc has reached MAX_INSTRUCTIONS, with pc set to
\* MAX_INSTRUCTIONS - 1; Run pressed with pc = MAX_INSTRUCTIONS - 1 executes
\* the last slot and stops with pc = MAX_INSTRUCTIONS - 1 again.
C28_RunEndsAtBound ==
    /\ running ~> (~running /\ pc = MAX_INSTRUCTIONS - 1)
    /\ []((RanBatch /\ fault = "none") =>
             /\ \A i \in 1..Len(last.trace) :
                    last.trace[i].cpu.pc = last.trace[i].fetch + 1
             /\ ~running => EndedOnOverflow /\ BatchEnd.pc = MAX_INSTRUCTIONS
             /\ (last.op = "Run" /\ last.pre.pc = MAX_INSTRUCTIONS - 1) =>
                    /\ Len(last.trace) = 1
                    /\ last.trace[1].fetch = MAX_INSTRUCTIONS - 1
                    /\ ~running
                    /\ pc = MAX_INSTRUCTIONS - 1)

\* C28 happens: Run is pressed with pc = MAX_INSTRUCTIONS - 1, where a run
\* leaves it; the last slot is executed and the run stops where it began.
C28_Witness ==
    /\ RanBatch
    /\ fault = "none"
    /\ last.op = "Run"
    /\ last.pre.pc = MAX_INSTRUCTIONS - 1
    /\ last.trace = <<[fetch |-> MAX_INSTRUCTIONS - 1,
                       cpu |-> [a |-> a, d |-> d, pc |-> MAX_INSTRUCTIONS,
                                ram |-> last.pre.ram, fault |-> "none"]]>>
    /\ ~running
    /\ pc = MAX_INSTRUCTIONS - 1

\* A run from pc = 0 has stopped by itself in a frame that executed nothing.
C28_StoppedAtBound ==
    /\ RanBatch
    /\ fault = "none"
    /\ last.op = "Tick"
    /\ last.pre.pc = MAX_INSTRUCTIONS
    /\ last.trace = <<>>
    /\ ~running
    /\ pc = MAX_INSTRUCTIONS - 1

-----------------------------------------------------------------------------
(* Claims about the errors of parse, checked under SpecParseErrors.        *)

\* A cleaned line that stands for an instruction: an address line whose value
\* makes an A instruction, or a compute line of two or three tokens with known
\* mnemonics.
WellFormed(line) ==
    IF StartsWith(line, "@")
    THEN ParseI16(U16ToString(address_table.table[Operand(line)])).ok
    ELSE LET t == split_line(line)
         IN  \/ /\ Len(t) = 2
                /\ Contains(line, ";")
                /\ t[1] \in DOMAIN CompOf
                /\ t[2] \in DOMAIN JumpOf
             \/ /\ Len(t) = 2
                /\ ~Contains(line, ";")
                /\ t[1] \in DOMAIN DestinationOf
                /\ t[2] \in DOMAIN CompOf
             \/ /\ Len(t) = 3
                /\ t[1] \in DOMAIN DestinationOf
                /\ t[2] \in DOMAIN CompOf
                /\ t[3] \in DOMAIN JumpOf

\* The cleaned lines that are neither empty, nor a label, nor well formed.
MalformedLines ==
    {i \in Slots : /\ Cleaned[i] # <<>>
                   /\ ~IsLabelLine(Cleaned[i])
                   /\ ~WellFormed(Cleaned[i])}

\* parse has been called, however it ended.
ParseCalled == last.op = "parse"

\* C11: parse ends in Ok or in Err(InvalidLine) and in no other way; it ends in
\* Err whenever a line is malformed, the error names a malformed line, and no
\* instruction array is installed.
C11_OkOrInvalidLine ==
    ParseCalled =>
        /\ last.kind \in {"Ok", "Err"}
        /\ fault = "none"
        /\ MalformedLines # {} =>
               /\ last.kind = "Err"
               /\ program_error.line_number \in MalformedLines
               /\ instructions = [i \in Slots |-> InstrNone]

\* C11 fails: the comp 2 is no mnemonic of Comp::new, which panics; parse
\* ends in neither Ok nor Err.
C11_MnemonicPanics ==
    /\ ParseCalled
    /\ last.source = <<L_D_eq_A, <<"D", "=", "2">>>>
    /\ MalformedLines = {1}
    /\ last.kind = "Panic"
    /\ fault = "Comp::new"

\* The compute lines of the stripped source that split into three tokens.
ThreeTokenLines ==
    {i \in Slots : /\ Cleaned[i] # <<>>
                   /\ ~StartsWith(Cleaned[i], "@")
                   /\ ~IsLabelLine(Cleaned[i])
                   /\ Len(split_line(Cleaned[i])) = 3}

\* parse comes to line i: every line before it is empty, a label, or an address
\* or two-token line that makes an instruction.
Reached(i) ==
    \A j \in 0..(i - 1) :
        \/ Cleaned[j] = <<>>
        \/ IsLabelLine(Cleaned[j])
        \/ j \notin ThreeTokenLines /\ WellFormed(Cleaned[j])

\* parse returned Err(InvalidLine(i, text of line i)) and installed nothing.
InvalidLineAt(i) ==
    /\ last.kind = "Err"
    /\ fault = "none"
    /\ program_error = [line_number |-> i, text |-> Cleaned[i]]
    /\ instructions = [k \in Slots |-> InstrNone]

====
